---- MODULE Spec2Model ----
(***************************************************************************)
(* A model of the r2-tiktok-upload worker (src/src/index.ts, the second,   *)
(* current copy of the file: lines 199-828, and src/src/signer.ts lines    *)
(* 65-233).                                                                *)
(*                                                                         *)
(* The state is the TOKENS_KV namespace, the clock, and one record per     *)
(* request in flight.  Every handler is cut at its awaits on shared state  *)
(* (a KV get/put/delete, a fetch to the authorization server or to the     *)
(* publish endpoint): one action per such step, the synchronous code       *)
(* around the await being part of the step.  Requests therefore interleave *)
(* exactly where the worker's event loop can interleave them.              *)
(*                                                                         *)
(* Time is Date.now() in milliseconds.  The clock advances only between    *)
(* requests: a request lasts milliseconds while every period of the        *)
(* program is at least 60 s.  KV entries written with an expirationTtl     *)
(* disappear when the clock reaches their expiry.  The KV namespace is     *)
(* modelled as a consistent store (a read sees the last write), as a test  *)
(* stub of it is.                                                          *)
(***************************************************************************)
EXTENDS Integers, Sequences, FiniteSets, TLC

VARIABLES
  kv,        \* TOKENS_KV: key string -> [val, exp]; exp = 0 is "no expiry"
  now,       \* Date.now(), ms
  procs,     \* request slot -> the request's kind, position and locals
  issued,    \* the authorization server: token sets issued so far
  minted,    \* random values drawn so far: [keys, states]; reqs: dispatches received
  rateStat,  \* history: per rate-limit window key, what its calls did
  hist       \* history: per idempotency record name, what its dispatches did

vars == <<kv, now, procs, issued, minted, rateStat, hist>>

-----------------------------------------------------------------------------
(* Bounds of the model *)

NProcs == 2        \* request slots (requests that can overlap)
MaxLimit == 2      \* enforceRate is called directly with limit in 1..MaxLimit
MaxCallsOver == 2  \* direct calls per window: up to limit + MaxCallsOver
MaxWindows == 2    \* the clock of SpecRate stops after this many windows
MaxIssued == 2     \* token sets the authorization server issues
MaxStates == 1     \* OAuth states login creates
MaxKeys == 1       \* API keys createKey mints
MaxReqs == 3       \* dispatches received, when they may overlap
MaxSeqReqs == 1    \* dispatches received, when they come one at a time
MaxDays == 1       \* days that pass
MaxTokenTicks == 5 \* the clock of SpecToken stops after this many half minutes
MaxTenants == 2    \* keys issued and activated, when accounts are told apart
MaxSweepKeys == 2  \* key records in the store the sweep finds
MaxOutcomeReqs == 2 \* dispatches received, when outcomes are told apart
MaxIdLen == 3      \* characters of an identifier given to the signer
MaxLapseStates == 2 \* logins, when a ticket runs out

Procs == 1..NProcs

-----------------------------------------------------------------------------
(* Program constants *)

TestWindowSec == 60
WebhookLimit == 60       \* index.ts 630: enforceRate(env, `rk:webhook:${hash}`, 60, 60)
WebhookWindowSec == 60   \* windowSec of the direct enforceRate calls (as webhook's)

-----------------------------------------------------------------------------
(* The KV namespace *)

Live(k) == k \in DOMAIN kv

KvGetVal(k) == kv[k].val

\* put(key, value, {expirationTtl: ttl}); ttl = 0: no expirationTtl given
KvPut(store, k, v, ttl) ==
  [x \in (DOMAIN store) \cup {k} |->
     IF x = k THEN [val |-> v, exp |-> IF ttl = 0 THEN 0 ELSE now + ttl * 1000]
     ELSE store[x]]

KvDelete(store, k) == [x \in (DOMAIN store) \ {k} |-> store[x]]

\* the entries that are still there at time t
KvExpire(store, t) ==
  [x \in {y \in DOMAIN store : store[y].exp = 0 \/ t < store[y].exp} |-> store[x]]

-----------------------------------------------------------------------------
(* Request slots *)

NoRl == [allowed |-> FALSE, remaining |-> 0 - 1, resetAt |-> 0 - 1]

IdleProc == [kind |-> "none", pc |-> "idle"]

\* enforceRate's locals; ord: the call's rank among the calls of its window
RateLocals ==
  [windowKey |-> "", limit |-> 0, windowSec |-> 0, nowSec |-> 0, count |-> 0,
   rl |-> NoRl, ord |-> 0]

NewProc(kind, locals) == [kind |-> kind, pc |-> "start"] @@ locals

AllIdle == \A q \in Procs : procs[q].pc \in {"idle", "done"}

\* The request in slot p takes a step that leaves it as pr; the answers of
\* the requests that had returned are gone (their slots are free).
Step(p, pr) ==
  [q \in Procs |-> IF q = p THEN pr
                   ELSE IF procs[q].pc = "done" THEN IdleProc ELSE procs[q]]

\* A request may start in slot p: the lowest free slot, a slot whose request
\* has returned being free.  conc = number of requests that may overlap.
CanStart(p, conc) ==
  /\ procs[p].pc \in {"idle", "done"}
  /\ \A q \in Procs : q < p => procs[q].pc \notin {"idle", "done"}
  /\ Cardinality({q \in Procs : procs[q].pc \notin {"idle", "done"}}) < conc

-----------------------------------------------------------------------------
(* enforceRate (index.ts 786-806) *)

\* started/finished/allowed: calls on the window key so far; overlap: a call
\* began while another call on the key was in flight; endsAt: the window's end, ms
NoStat ==
  [started |-> 0, finished |-> 0, allowed |-> 0, overlap |-> FALSE, endsAt |-> 0,
   limit |-> 0]

StatOf(wk) == IF wk \in DOMAIN rateStat THEN rateStat[wk] ELSE NoStat

SetStat(wk, s) ==
  [x \in (DOMAIN rateStat) \cup {wk} |-> IF x = wk THEN s ELSE rateStat[x]]

InFlightOn(wk) ==
  {q \in Procs : procs[q].pc \in {"er_get", "er_put"} /\ procs[q].windowKey = wk}

RateCall(p) == procs[p].kind = "rate" /\ procs[p].pc = "done"

\* lines 792-793: const now = floor(Date.now()/1000); windowKey = `${key}:${floor(now/windowSec)}`
WindowKey(key, nowSec, windowSec) == key \o ":" \o ToString(nowSec \div windowSec)

\* line 798 / 804
ResetAt(nowSec, windowSec) == ((nowSec \div windowSec) + 1) * windowSec

\* line 797, as a faulty comparison would have it
RateExceeded_gt(count, limit) == count > limit

\* line 797: if (count >= limit)
RateExceeded(count, limit) == count >= limit

\* line 805: remaining: Math.max(0, limit - (count + 1))
Remaining(count, limit) == IF limit - (count + 1) > 0 THEN limit - (count + 1) ELSE 0

\* Entry: the request in slot p (already given its kind) calls enforceRate.
EnterRate(pr, key, limit, windowSec) ==
  LET ns == now \div 1000
      wk == WindowKey(key, ns, windowSec)
  IN  [pr EXCEPT !.pc = "er_get", !.windowKey = wk, !.limit = limit,
                 !.windowSec = windowSec, !.nowSec = ns, !.count = 0,
                 !.rl = NoRl, !.ord = StatOf(wk).started + 1]

EnterRateStat(key, limit, windowSec) ==
  LET wk == WindowKey(key, now \div 1000, windowSec)
      s == StatOf(wk)
  IN  SetStat(wk, [s EXCEPT !.started = @ + 1,
                            !.overlap = @ \/ InFlightOn(wk) # {},
                            !.endsAt = ResetAt(now \div 1000, windowSec) * 1000,
                            !.limit = limit])

\* A direct call enforceRate(env, key, limit, windowSec), by a caller that
\* does nothing else.  The bucket "rk:t<limit>" is always used with that limit.
enforceRate_call(p, limit, conc) ==
  LET key == "rk:t" \o ToString(limit)
      wk == WindowKey(key, now \div 1000, TestWindowSec)
  IN  /\ CanStart(p, conc)
      /\ DOMAIN rateStat \subseteq {wk}    \* one bucket per window
      /\ StatOf(wk).started < limit + MaxCallsOver
      /\ procs' = Step(p, EnterRate(NewProc("rate", RateLocals),
                                                 key, limit, TestWindowSec))
      /\ rateStat' = EnterRateStat(key, limit, TestWindowSec)
      /\ UNCHANGED <<kv, now, issued, minted, hist>>

\* lines 813-828: ratelimitedJson: status 429, retry-after = max(0, resetAt - now)
RetryAfter(rl, nowSec) == IF rl.resetAt - nowSec > 0 THEN rl.resetAt - nowSec ELSE 0

\* What the caller does with enforceRate's result:
\*   a direct call: nothing more;
\*   createKey, line 464, and webhook, line 631: if (!rl.allowed) return
\*   ratelimitedJson(rl); otherwise they go on.
RateReturn(pr, rl) ==
  IF pr.kind = "rate" THEN [pr EXCEPT !.pc = "done", !.rl = rl]
  ELSE IF ~rl.allowed
       THEN [pr EXCEPT !.pc = "done", !.rl = rl, !.status = 429,
                       !.retryAfter = RetryAfter(rl, pr.nowSec)]
       ELSE IF pr.kind = "createKey" THEN [pr EXCEPT !.pc = "ck_putApi", !.rl = rl]
            ELSE [pr EXCEPT !.pc = "wh_getApi", !.rl = rl]

\* lines 794-800: raw = await KV.get(windowKey); count = raw ? parseInt(raw) : 0;
\* if (count >= limit) return {allowed: false, remaining: 0, resetAt}
enforceRate_get(p) ==
  LET pr == procs[p]
      count == IF Live(pr.windowKey) THEN KvGetVal(pr.windowKey) ELSE 0
      s == StatOf(pr.windowKey)
  IN  /\ pr.pc = "er_get"
      /\ IF RateExceeded(count, pr.limit)
         THEN /\ procs' = Step(p,
                    RateReturn([pr EXCEPT !.count = count],
                               [allowed |-> FALSE, remaining |-> 0,
                                resetAt |-> ResetAt(pr.nowSec, pr.windowSec)]))
              /\ rateStat' = IF pr.kind = "rate"
                             THEN SetStat(pr.windowKey, [s EXCEPT !.finished = @ + 1])
                             ELSE rateStat
         ELSE /\ procs' = Step(p, [pr EXCEPT !.pc = "er_put", !.count = count])
              /\ UNCHANGED rateStat
      /\ UNCHANGED <<kv, now, issued, minted, hist>>

\* lines 803-805: await KV.put(windowKey, String(count + 1), {expirationTtl: windowSec});
\* return {allowed: true, remaining: max(0, limit - (count + 1)), resetAt}
enforceRate_put(p) ==
  LET pr == procs[p]
      s == StatOf(pr.windowKey)
  IN  /\ pr.pc = "er_put"
      /\ kv' = KvPut(kv, pr.windowKey, pr.count + 1, pr.windowSec)
      /\ procs' = Step(p,
            RateReturn(pr, [allowed |-> TRUE,
                            remaining |-> Remaining(pr.count, pr.limit),
                            resetAt |-> ResetAt(pr.nowSec, pr.windowSec)]))
      /\ rateStat' = IF pr.kind = "rate"
                     THEN SetStat(pr.windowKey,
                                  [s EXCEPT !.finished = @ + 1, !.allowed = @ + 1])
                     ELSE rateStat
      /\ UNCHANGED <<now, issued, minted, hist>>

-----------------------------------------------------------------------------
(* Values: tokens, the authorization server, random identifiers *)

\* a field a JSON object does not have
Undef == [t |-> "undefined"]

\* Tokens are opaque strings to the program; the model keeps, for each, the
\* account it was issued for, its serial number and the grant that issued it.
AccessToken(acct, n, grant) == [t |-> "access", acct |-> acct, n |-> n, grant |-> grant]

RefreshToken(acct, n) == [t |-> "refresh", acct |-> acct, n |-> n]

\* open_id values the authorization server can return
OpenIds == {"A", "B"}

\* expires_in values (seconds) the authorization server answers with
ExpiresIns == {150, 180}

\* bodies of the authorization server's rejections
TokenErrors == {"invalid_grant"}

\* line 557: the JSON of a successful authorization-code exchange
CodeGrant(acct, e) ==
  [access_token |-> AccessToken(acct, issued + 1, "code"),
   refresh_token |-> RefreshToken(acct, issued + 1),
   expires_in |-> e, open_id |-> acct]

\* line 772: the JSON of a successful refresh exchange for refresh token rt;
\* the server may leave refresh_token out
RefreshGrant(rt, e, rotate) ==
  [access_token |-> AccessToken(rt.acct, issued + 1, "refresh"),
   refresh_token |-> IF rotate THEN RefreshToken(rt.acct, issued + 1) ELSE Undef,
   expires_in |-> e, open_id |-> rt.acct]

\* lines 398-402, giving the secret back as its own hash
sha256Base64Url_clear(raw) == raw

\* lines 398-402: SHA-256, base64url: one-way and free of collisions
sha256Base64Url(raw) == "sha256~" \o raw

\* lines 404-408: the n-th secret minted (32 random bytes: never twice the same)
mintApiToken(n) == "rk_live_" \o ToString(n)

\* crypto.randomUUID(), n-th draw, for a reveal ticket (line 467) and a state (line 417)
ShowId(n) == "show-" \o ToString(n)
StateId(n) == "state-" \o ToString(n)

\* KV keys
ApiKeyName(hash) == "api:" \o hash
TokKeyName(openId) == "tok:open:" \o openId
ShowKeyName(showId) == "showkey:" \o showId
StateKeyName(state) == "state:" \o state

-----------------------------------------------------------------------------
(* webhook (index.ts 625-749): its locals, its responses, its catch block *)

\* the JSON body of a dispatch; "" = the field is missing
NoBody == [id |-> "", url |-> "", idempotencyKey |-> "", mode |-> "publish"]

\* published: publish requests this dispatch sent; signed: the signer was
\* called; replay: it answered from the idempotency record; later: a result
\* was already stored under its idempotency key when its key was resolved
WebhookLocals ==
  [apiKey |-> "", dry |-> FALSE, body |-> NoBody, hash |-> "", metaStatus |-> "",
   openId |-> "", idemName |-> "", later |-> FALSE, replay |-> FALSE,
   signed |-> FALSE, videoUrl |-> Undef, request |-> Undef, published |-> 0,
   result |-> Undef, status |-> 0, retryAfter |-> 0, resp |-> Undef]

\* a JSON result; "" = the field is missing
JsonBody(ok, status, tiktok, error) ==
  [ok |-> ok, status |-> status, tiktok |-> tiktok, error |-> error]

\* json(body, status)
WebhookDone(pr, status, body) ==
  [pr EXCEPT !.pc = "done", !.status = status, !.resp = body]

\* lines 738-748, without the put of lines 740-746
Catch_noStore(pr, err) ==
  LET result == JsonBody(FALSE, "", "", err) IN
  WebhookDone([pr EXCEPT !.result = result], 500, result)

\* lines 738-748: result = {ok: false, error: String(err)}; stored under the
\* idempotency key when there is one; answered with 500
Catch(pr, err) ==
  LET result == JsonBody(FALSE, "", "", err) IN
  IF pr.body.idempotencyKey # ""
  THEN [pr EXCEPT !.pc = "wh_catchPut", !.result = result, !.status = 500]
  ELSE WebhookDone([pr EXCEPT !.result = result], 500, result)

\* String.prototype.toLowerCase, on the mode values a dispatch carries
toLowerCase(s) == IF s = "DRAFT" THEN "draft" ELSE s

\* line 645: publishMode = (mode ?? "publish").toLowerCase(); a body without
\* mode is written with mode "publish"
publishMode(body) == toLowerCase(body.mode)

\* lines 673-683, never flagging a draft
PublishRequest_noDraft(pr, access) ==
  [bearer |-> access,
   post_info |-> [title |-> "", privacy_level |-> "SELF_ONLY", is_draft |-> FALSE],
   source_info |-> [source |-> "PULL_FROM_URL", video_url |-> pr.videoUrl]]

\* lines 673-683: post_info, source_info
PublishRequest(pr, access) ==
  [bearer |-> access,
   post_info |-> [title |-> "", privacy_level |-> "SELF_ONLY",
                  is_draft |-> (publishMode(pr.body) = "draft")],
   source_info |-> [source |-> "PULL_FROM_URL", video_url |-> pr.videoUrl]]

\* lines 700-703: the body of the publish request
PublishBody(pr) ==
  [post_info |-> pr.request.post_info,
   source_info |-> [source |-> "PULL_FROM_URL", video_url |-> pr.videoUrl]]

\* lines 687-691, showing the post_info of a plain publish whatever the mode
DryBody_noDraft(request) ==
  [ok |-> TRUE, dryRun |-> TRUE,
   request |-> [post_info |-> [request.post_info EXCEPT !.is_draft = FALSE],
                source_info |-> request.source_info]]

\* lines 687-691, answering with the whole request, its authorization header
\* included
DryBody_withBearer(request) ==
  [ok |-> TRUE, dryRun |-> TRUE, request |-> request]

\* lines 687-691: the dry-run answer
DryBody(request) ==
  [ok |-> TRUE, dryRun |-> TRUE,
   request |-> [post_info |-> request.post_info, source_info |-> request.source_info]]

\* line 671, reading one shared token record whatever the account
WebhookTokKey_shared(openId) == TokKeyName("A")

\* line 671: getAccessTokenFor(env, `tok:open:${openId}`)
WebhookTokKey(openId) == TokKeyName(openId)

-----------------------------------------------------------------------------
(* getAccessTokenFor (index.ts 751-776) *)

\* nreq: requests this call sent to the token endpoint; nput: its store
\* writes; tcheck: Date.now() at line 758; hadTok: a record was read
TokenLocals ==
  [kvKey |-> "", tok |-> Undef, hadTok |-> FALSE, tcheck |-> 0, data |-> Undef,
   newTok |-> Undef, access |-> Undef, err |-> "", nreq |-> 0, nput |-> 0]

EnterToken(pr, kvKey) ==
  [pr EXCEPT !.pc = "gat_get", !.kvKey = kvKey, !.tok = Undef, !.hadTok = FALSE,
             !.tcheck = 0, !.data = Undef, !.newTok = Undef, !.access = Undef,
             !.err = "",
             !.nreq = 0, !.nput = 0]

\* line 757, with the early-refresh margin forgotten
ExpiresAt_noSkew(tok) == tok.obtained_at + tok.expires_in * 1000

\* lines 755-757: issuedAt + (expiresIn - 120) * 1000
ExpiresAt(tok) == tok.obtained_at + (tok.expires_in - 120) * 1000

\* line 773 as in the first copy of the file (line 188): tok = {...data, obtained_at}
SpreadRefresh_dataOnly(tok, data, t) ==
  [access_token |-> data.access_token, refresh_token |-> data.refresh_token,
   expires_in |-> data.expires_in, open_id |-> data.open_id, obtained_at |-> t]

\* line 773: tok = {...tok, ...data, obtained_at: Date.now()}
SpreadRefresh(tok, data, t) ==
  [access_token |-> data.access_token,
   refresh_token |-> IF data.refresh_token = Undef THEN tok.refresh_token
                     ELSE data.refresh_token,
   expires_in |-> data.expires_in, open_id |-> data.open_id, obtained_at |-> t]

\* A direct call getAccessTokenFor(env, `tok:open:${acct}`)
getAccessTokenFor_call(p, acct, conc) ==
  /\ CanStart(p, conc)
  /\ procs' = Step(p,
        EnterToken(NewProc("token", TokenLocals), TokKeyName(acct)))
  /\ UNCHANGED <<kv, now, issued, minted, rateStat, hist>>

\* What the caller does when getAccessTokenFor returns / throws.
\*   a direct call: nothing more;
\*   webhook, lines 671-692: build the request; in a dry run answer with it,
\*   otherwise go on to publish; a throw goes to the catch block.
TokenReturn(pr, access) ==
  IF pr.kind = "token" THEN [pr EXCEPT !.pc = "done", !.access = access]
  ELSE LET req == PublishRequest(pr, access)
           q == [pr EXCEPT !.access = access, !.request = req]
       IN  IF pr.dry THEN WebhookDone(q, 200, DryBody(req))
           ELSE [q EXCEPT !.pc = "wh_publish"]

\* a throw of getAccessTokenFor swallowed by the caller, who goes on with the
\* token it has
TokenThrow_swallow(pr, err) ==
  IF pr.kind = "token" THEN [pr EXCEPT !.pc = "done", !.err = err]
  ELSE IF pr.hadTok THEN TokenReturn([pr EXCEPT !.err = err], pr.tok.access_token)
       ELSE Catch([pr EXCEPT !.err = err], err)

TokenThrow(pr, err) ==
  IF pr.kind = "token" THEN [pr EXCEPT !.pc = "done", !.err = err]
  ELSE Catch([pr EXCEPT !.err = err], err)

\* lines 752-758
getAccessTokenFor_get(p) ==
  LET pr == procs[p] IN
  /\ pr.pc = "gat_get"
  /\ procs' = Step(p,
       IF ~Live(pr.kvKey)
       THEN TokenThrow([pr EXCEPT !.tcheck = now],
                       "Error: Not authorised for this account. Connect TikTok first.")
       ELSE LET tok == KvGetVal(pr.kvKey)
                q == [pr EXCEPT !.tok = tok, !.hadTok = TRUE, !.tcheck = now]
            IN  IF now < ExpiresAt(tok) THEN TokenReturn(q, tok.access_token)
                ELSE [q EXCEPT !.pc = "gat_fetch"])
  /\ UNCHANGED <<kv, now, issued, minted, rateStat, hist>>

\* lines 760-773: the refresh request and the server's answer
getAccessTokenFor_fetch(p, expiresIns, rotates) ==
  LET pr == procs[p] IN
  /\ pr.pc = "gat_fetch"
  /\ \/ \E body \in TokenErrors :
          /\ procs' = Step(p,
                TokenThrow([pr EXCEPT !.nreq = @ + 1], "Error: Refresh failed: " \o body))
          /\ UNCHANGED issued
     \/ \E e \in expiresIns, rotate \in rotates :
          /\ issued < MaxIssued
          /\ LET data == RefreshGrant(pr.tok.refresh_token, e, rotate) IN
             procs' = Step(p,
                [pr EXCEPT !.pc = "gat_put", !.nreq = @ + 1, !.data = data,
                           !.newTok = SpreadRefresh(pr.tok, data, now)])
          /\ issued' = issued + 1
  /\ UNCHANGED <<kv, now, minted, rateStat, hist>>

\* lines 774-775
getAccessTokenFor_put(p) ==
  LET pr == procs[p] IN
  /\ pr.pc = "gat_put"
  /\ kv' = KvPut(kv, pr.kvKey, pr.newTok, 0)
  /\ procs' = Step(p,
        TokenReturn([pr EXCEPT !.nput = @ + 1], pr.newTok.access_token))
  /\ UNCHANGED <<now, issued, minted, rateStat, hist>>

-----------------------------------------------------------------------------
(* login (index.ts 410-428) *)

\* GET /login?show=<show>, show not empty: one KV put, then the redirect
login(show, maxStates) ==
  /\ AllIdle
  /\ minted.states < maxStates
  /\ kv' = KvPut(kv, StateKeyName(StateId(minted.states + 1)), [show |-> show], 300)
  /\ minted' = [minted EXCEPT !.states = @ + 1]
  /\ UNCHANGED <<now, procs, issued, rateStat, hist>>

\* the show values a browser can send: the tickets handed out, or anything else
ShowInputs == {ShowId(n) : n \in 1..minted.keys} \cup {"bogus"}

-----------------------------------------------------------------------------
(* callback (index.ts 524-583) *)

CallbackLocals ==
  [state |-> "", show |-> "", data |-> Undef, obtainedAt |-> 0, showKey |-> "",
   status |-> 0, apiKeyOnce |-> "", detail |-> ""]

\* the state values a browser can send: those login issued, or a forged one
StateInputs == {StateId(n) : n \in 1..minted.states} \cup {"forged"}

\* renderCallbackPage(opts, status)
CallbackDone(pr, status, apiKeyOnce, detail) ==
  [pr EXCEPT !.pc = "done", !.status = status, !.apiKeyOnce = apiKeyOnce,
             !.detail = detail]

\* lines 525-536, going on without a ticket when the state is not there
callback_getState_lenient(p, state, conc) ==
  /\ CanStart(p, conc)
  /\ LET pr == [NewProc("callback", CallbackLocals) EXCEPT !.state = state] IN
     procs' = Step(p,
        [pr EXCEPT !.pc = "cb_fetch",
                   !.show = IF Live(StateKeyName(state))
                            THEN KvGetVal(StateKeyName(state)).show ELSE ""])
  /\ UNCHANGED <<kv, now, issued, minted, rateStat, hist>>

\* lines 525-536, the state record deleted once it has been read
callback_getState_once(p, state, conc) ==
  /\ CanStart(p, conc)
  /\ LET pr == [NewProc("callback", CallbackLocals) EXCEPT !.state = state] IN
     procs' = Step(p,
        IF ~Live(StateKeyName(state))
        THEN CallbackDone(pr, 400, "", "Try Connect TikTok again.")
        ELSE [pr EXCEPT !.pc = "cb_fetch",
                        !.show = KvGetVal(StateKeyName(state)).show])
  /\ kv' = KvDelete(kv, StateKeyName(state))
  /\ UNCHANGED <<now, issued, minted, rateStat, hist>>

\* lines 525-536: code and state present; stateRaw = await KV.get(`state:${state}`)
callback_getState(p, state, conc) ==
  /\ CanStart(p, conc)
  /\ LET pr == [NewProc("callback", CallbackLocals) EXCEPT !.state = state] IN
     procs' = Step(p,
        IF ~Live(StateKeyName(state))
        THEN CallbackDone(pr, 400, "", "Try Connect TikTok again.")
        ELSE [pr EXCEPT !.pc = "cb_fetch",
                        !.show = KvGetVal(StateKeyName(state)).show])
  /\ UNCHANGED <<kv, now, issued, minted, rateStat, hist>>

\* lines 538-557, the check of r.ok (552) left out: the body of a rejection
\* is taken for a grant
callback_fetch_noCheck(p, accts, expiresIns) ==
  LET pr == procs[p] IN
  /\ pr.pc = "cb_fetch"
  /\ \/ \E body \in TokenErrors :
          /\ procs' = Step(p,
                [pr EXCEPT !.pc = "cb_putTok",
                           !.data = [access_token |-> Undef, refresh_token |-> Undef,
                                     expires_in |-> Undef, open_id |-> "undefined"],
                           !.obtainedAt = now])
          /\ UNCHANGED issued
     \/ \E acct \in accts, e \in expiresIns :
          /\ issued < MaxIssued
          /\ procs' = Step(p,
                [pr EXCEPT !.pc = "cb_putTok", !.data = CodeGrant(acct, e),
                           !.obtainedAt = now])
          /\ issued' = issued + 1
  /\ UNCHANGED <<kv, now, minted, rateStat, hist>>

\* lines 538-557: the authorization-code exchange and the server's answer
callback_fetch(p, accts, expiresIns) ==
  LET pr == procs[p] IN
  /\ pr.pc = "cb_fetch"
  /\ \/ \E body \in TokenErrors :
          /\ procs' = Step(p, CallbackDone(pr, 500, "", body))
          /\ UNCHANGED issued
     \/ \E acct \in accts, e \in expiresIns :
          /\ issued < MaxIssued
          /\ procs' = Step(p,
                [pr EXCEPT !.pc = "cb_putTok", !.data = CodeGrant(acct, e),
                           !.obtainedAt = now])
          /\ issued' = issued + 1
  /\ UNCHANGED <<kv, now, minted, rateStat, hist>>

\* line 559, the token record not written
callback_putTok_skip(p) ==
  LET pr == procs[p] IN
  /\ pr.pc = "cb_putTok"
  /\ procs' = Step(p,
        IF pr.show # "" THEN [pr EXCEPT !.pc = "cb_getShow"]
        ELSE CallbackDone(pr, 200, "", ""))
  /\ UNCHANGED <<kv, now, issued, minted, rateStat, hist>>

\* line 559: put(`tok:open:${data.open_id}`, {...data, obtained_at: Date.now()})
callback_putTok(p) ==
  LET pr == procs[p] IN
  /\ pr.pc = "cb_putTok"
  /\ kv' = KvPut(kv, TokKeyName(pr.data.open_id),
                 [access_token |-> pr.data.access_token,
                  refresh_token |-> pr.data.refresh_token,
                  expires_in |-> pr.data.expires_in, open_id |-> pr.data.open_id,
                  obtained_at |-> pr.obtainedAt], 0)
  /\ procs' = Step(p,
        IF pr.show # "" THEN [pr EXCEPT !.pc = "cb_getShow"]
        ELSE CallbackDone(pr, 200, "", ""))
  /\ UNCHANGED <<now, issued, minted, rateStat, hist>>

\* lines 563-565, the secret of the ticket found whether the ticket is live or not
callback_getShow_anyway(p) ==
  LET pr == procs[p]
      ns == {n \in 1..minted.keys : ShowId(n) = pr.show}
  IN  /\ pr.pc = "cb_getShow"
      /\ procs' = Step(p,
            IF ns # {}
            THEN [pr EXCEPT !.pc = "cb_delShow",
                            !.showKey = mintApiToken(CHOOSE n \in ns : TRUE)]
            ELSE CallbackDone(pr, 200, "", ""))
      /\ UNCHANGED <<kv, now, issued, minted, rateStat, hist>>

\* lines 563-565: showKey = await KV.get(`showkey:${info.show}`) || ""
callback_getShow(p) ==
  LET pr == procs[p] IN
  /\ pr.pc = "cb_getShow"
  /\ procs' = Step(p,
        IF Live(ShowKeyName(pr.show)) /\ KvGetVal(ShowKeyName(pr.show)) # ""
        THEN [pr EXCEPT !.pc = "cb_delShow", !.showKey = KvGetVal(ShowKeyName(pr.show))]
        ELSE CallbackDone(pr, 200, "", ""))
  /\ UNCHANGED <<kv, now, issued, minted, rateStat, hist>>

\* line 566, leaving the ticket where it is
callback_delShow_keep(p) ==
  LET pr == procs[p] IN
  /\ pr.pc = "cb_delShow"
  /\ procs' = Step(p, [pr EXCEPT !.pc = "cb_putApi"])
  /\ UNCHANGED <<kv, now, issued, minted, rateStat, hist>>

\* line 566: await KV.delete(`showkey:${info.show}`)
callback_delShow(p) ==
  LET pr == procs[p] IN
  /\ pr.pc = "cb_delShow"
  /\ kv' = KvDelete(kv, ShowKeyName(pr.show))
  /\ procs' = Step(p, [pr EXCEPT !.pc = "cb_putApi"])
  /\ UNCHANGED <<now, issued, minted, rateStat, hist>>

\* lines 568-572, with the ticket's expirationTtl (line 473) copied to the put
ActiveKeyPut_withTtl(store, hash, openId) ==
  KvPut(store, ApiKeyName(hash),
        [status |-> "active", open_id |-> openId, created_at |-> now], 600)

\* lines 568-572, with the account id left out of the record
ActiveKeyPut_noAccount(store, hash, openId) ==
  KvPut(store, ApiKeyName(hash),
        [status |-> "active", open_id |-> "", created_at |-> now], 0)

\* lines 568-572: put(`api:${hash}`, {status: "active", open_id, created_at: Date.now()})
ActiveKeyPut(store, hash, openId) ==
  KvPut(store, ApiKeyName(hash),
        [status |-> "active", open_id |-> openId, created_at |-> now], 0)

\* lines 567-582: the hash of the secret, the put, the page that shows the secret
callback_putApi(p) ==
  LET pr == procs[p] IN
  /\ pr.pc = "cb_putApi"
  /\ kv' = ActiveKeyPut(kv, sha256Base64Url(pr.showKey), pr.data.open_id)
  /\ procs' = Step(p, CallbackDone(pr, 200, pr.showKey, ""))
  /\ UNCHANGED <<now, issued, minted, rateStat, hist>>

-----------------------------------------------------------------------------
(* createKey (index.ts 461-503) *)

CreateKeyLocals ==
  [ip |-> "", raw |-> "", showId |-> "", status |-> 0, retryAfter |-> 0]

\* CF-Connecting-IP values (lines 809-811)
Ips == {"198.51.100.7"}

\* lines 462-463: rl = await enforceRate(env, `rk:newkey:${ip}`, 5, 3600)
createKey_start(p, ip, maxKeys, conc) ==
  /\ CanStart(p, conc)
  /\ minted.keys < maxKeys
  /\ procs' = Step(p,
        EnterRate([NewProc("createKey", RateLocals @@ CreateKeyLocals) EXCEPT !.ip = ip],
                  "rk:newkey:" \o ip, 5, 3600))
  /\ UNCHANGED <<kv, now, issued, minted, rateStat, hist>>

\* lines 465-471: mint the secret, hash it, draw the ticket id;
\* put(`api:${hash}`, {status: "pending", created_at: now})
createKey_putApi(p) ==
  LET pr == procs[p]
      raw == mintApiToken(minted.keys + 1)
  IN  /\ pr.pc = "ck_putApi"
      /\ kv' = KvPut(kv, ApiKeyName(sha256Base64Url(raw)),
                     [status |-> "pending", open_id |-> "", created_at |-> now], 0)
      /\ minted' = [minted EXCEPT !.keys = @ + 1]
      /\ procs' = Step(p,
            [pr EXCEPT !.pc = "ck_putShow", !.raw = raw,
                       !.showId = ShowId(minted.keys + 1)])
      /\ UNCHANGED <<now, issued, rateStat, hist>>

\* lines 473-502: put(`showkey:${showId}`, raw, {expirationTtl: 600}); the page
createKey_putShow(p) ==
  LET pr == procs[p] IN
  /\ pr.pc = "ck_putShow"
  /\ kv' = KvPut(kv, ShowKeyName(pr.showId), pr.raw, 600)
  /\ procs' = Step(p, [pr EXCEPT !.pc = "done", !.status = 200])
  /\ UNCHANGED <<now, issued, minted, rateStat, hist>>

\* the secrets a client can present: those whose page createKey has returned
Revealed ==
  {mintApiToken(n) : n \in 1..minted.keys} \
  {procs[q].raw : q \in {r \in Procs : procs[r].pc = "ck_putShow"}}

-----------------------------------------------------------------------------
(* purgeSelective (index.ts 307-371) *)

\* dryVar: the PURGE_DRY_RUN variable as configured (logged at line 370)
PurgeLocals ==
  [dryVar |-> "", dryRun |-> FALSE, rmUnmatched |-> TRUE, maxPendingHours |-> 24,
   pnow |-> 0, todo |-> {}, cur |-> "", reason |-> "", deleted |-> {},
   candidates |-> {}]

\* values of the PURGE_DRY_RUN and PURGE_REMOVE_UNMATCHED variables; "" = not set
PurgeDryRunValues == {"", "true", "false"}
PurgeUnmatchedValues == {"", "false"}

\* values of the PURGE_PENDING_MAX_HOURS variable; "" = not set
PurgeMaxHoursValues == {"", "1"}

\* line 310: parseInt(PURGE_PENDING_MAX_HOURS || "24", 10)
MaxPendingHours(hoursVar) ==
  IF hoursVar = "" THEN 24 ELSE IF hoursVar = "0" THEN 0 ELSE 1

\* line 320: list({prefix: "api:"}): every key record is under the hash of a minted secret
ApiKeyNames ==
  {k \in DOMAIN kv :
     \E n \in 1..minted.keys : k = ApiKeyName(sha256Base64Url(mintApiToken(n)))}

\* lines 308-321: the configuration, now, and the page of keys
purge_list(p, dryVar, unmatchedVar, hoursVar, conc) ==
  /\ CanStart(p, conc)
  /\ ApiKeyNames # {}
  /\ procs' = Step(p,
        [NewProc("purge", PurgeLocals) EXCEPT
            !.pc = "pg_get",
            !.dryVar = dryVar,
            !.dryRun = (dryVar = "true"),
            !.rmUnmatched = (unmatchedVar # "false"),
            !.maxPendingHours = MaxPendingHours(hoursVar),
            !.pnow = now,
            !.todo = ApiKeyNames])
  /\ UNCHANGED <<kv, now, issued, minted, rateStat, hist>>

\* line 343, with the comparison turned round
PendingTooOld_lt(pnow, createdAt, maxPendingHours) ==
  pnow - createdAt < maxPendingHours * 3600 * 1000

\* lines 313, 343: now - createdAt > maxPendingHours * 3600 * 1000
PendingTooOld(pnow, createdAt, maxPendingHours) ==
  pnow - createdAt > maxPendingHours * 3600 * 1000

\* line 367: the loop goes to the next key, or the run ends
PurgeContinue(pr) ==
  LET rest == pr.todo \ {pr.cur} IN
  [pr EXCEPT !.todo = rest, !.cur = "", !.pc = IF rest = {} THEN "done" ELSE "pg_get"]

\* lines 358-366, deleting whatever PURGE_DRY_RUN says
PurgeDecided_noDry(pr, reason) ==
  [pr EXCEPT !.reason = reason, !.candidates = @ \cup {pr.cur}, !.pc = "pg_delete"]

\* lines 358-366: shouldDelete is true
PurgeDecided(pr, reason) ==
  IF pr.dryRun
  THEN PurgeContinue([pr EXCEPT !.reason = reason, !.candidates = @ \cup {pr.cur}])
  ELSE [pr EXCEPT !.reason = reason, !.candidates = @ \cup {pr.cur}, !.pc = "pg_delete"]

\* lines 323-350: the next key of the page: read it, apply rule (1),
\* and decide whether rule (2) needs the token record
purge_get(p) ==
  LET pr == procs[p] IN
  /\ pr.pc = "pg_get"
  /\ \E k \in pr.todo :
       LET q == [pr EXCEPT !.cur = k] IN
       procs' = Step(p,
         IF ~Live(k) THEN PurgeContinue(q)
         ELSE LET meta == KvGetVal(k) IN
              IF meta.status = "pending"
                 /\ PendingTooOld(pr.pnow, meta.created_at, pr.maxPendingHours)
              THEN PurgeDecided(q, "pending>" \o ToString(pr.maxPendingHours) \o "h")
              ELSE IF pr.rmUnmatched /\ meta.status = "active" /\ meta.open_id # ""
                   THEN [q EXCEPT !.pc = "pg_getTok", !.reason = meta.open_id]
                   ELSE PurgeContinue(q))
  /\ UNCHANGED <<kv, now, issued, minted, rateStat, hist>>

\* lines 351-356, keeping the key whether the token record is there or not
purge_getTok_keep(p) ==
  LET pr == procs[p] IN
  /\ pr.pc = "pg_getTok"
  /\ procs' = Step(p, PurgeContinue(pr))
  /\ UNCHANGED <<kv, now, issued, minted, rateStat, hist>>

\* lines 351-356: tok = await KV.get(`tok:open:${openId}`); if (!tok) shouldDelete
purge_getTok(p) ==
  LET pr == procs[p] IN
  /\ pr.pc = "pg_getTok"
  /\ procs' = Step(p,
        IF ~Live(TokKeyName(pr.reason)) THEN PurgeDecided(pr, "active_unmatched")
        ELSE PurgeContinue(pr))
  /\ UNCHANGED <<kv, now, issued, minted, rateStat, hist>>

\* line 363: await KV.delete(key)
purge_delete(p) ==
  LET pr == procs[p] IN
  /\ pr.pc = "pg_delete"
  /\ kv' = KvDelete(kv, pr.cur)
  /\ procs' = Step(p, PurgeContinue([pr EXCEPT !.deleted = @ \cup {pr.cur}]))
  /\ UNCHANGED <<now, issued, minted, rateStat, hist>>

-----------------------------------------------------------------------------
(* signer.ts (65-233): resolveAndSign *)

\* url values of a dispatch: an object URL of the bucket, and a string that
\* is no URL
GoodUrl == "https://r2.example/bucket/clip2.mp4"
BadUrl == "clip2.mp4"

\* lines 221-230: the object key of an R2 URL; new URL(rawUrl) throws on BadUrl
extractKeyFromUrl(rawUrl) ==
  IF rawUrl = GoodUrl THEN [ok |-> TRUE, key |-> "clip2.mp4", err |-> ""]
  ELSE [ok |-> FALSE, key |-> "", err |-> "TypeError: Invalid URL"]

\* lines 141-204: the presigned GET URL of key, signed at time t for 7 days
presignGet(key, t) ==
  [origin |-> "https://media.example", key |-> key, date |-> t, expires |-> 604800]

\* lines 207-218
resolveAndSign(id, url, t) ==
  LET k == IF id # "" THEN [ok |-> TRUE, key |-> id \o ".mp4", err |-> ""]
           ELSE IF url # "" THEN extractKeyFromUrl(url)
           ELSE [ok |-> TRUE, key |-> "", err |-> ""]
  IN  IF ~k.ok THEN [ok |-> FALSE, url |-> Undef, err |-> k.err]
      ELSE IF k.key = ""
           THEN [ok |-> FALSE, url |-> Undef, err |-> "Error: Provide either 'id' or 'url'"]
           ELSE [ok |-> TRUE, url |-> presignGet(k.key, t), err |-> ""]

-----------------------------------------------------------------------------
(* webhook (index.ts 625-749): the steps *)

\* line 654, as in the first copy of the file (line 108): `idem:${idempotencyKey}`
IdemLookupName_unscoped(openId, k) == "idem:" \o k

\* line 654, looking under one account's records whatever the account
IdemLookupName_accountA(openId, k) == "idem:A:" \o k

\* line 654: `idem:${openId}:${idempotencyKey}`
IdemLookupName(openId, k) == "idem:" \o openId \o ":" \o k

\* lines 731, 742: `idem:${openId}:${idempotencyKey}`
IdemKeyName(openId, k) == "idem:" \o openId \o ":" \o k

\* pubs: publish requests sent by the dispatches of the record; stored: results
\* put; first: the first result put; overwritten: a result was put over
\* another; race: a dispatch read "no record" while another dispatch of the
\* record was between its own such read and its return
NoHist ==
  [pubs |-> 0, stored |-> 0, first |-> Undef, overwritten |-> FALSE, race |-> FALSE]

HistOf(name) == IF name \in DOMAIN hist THEN hist[name] ELSE NoHist

SetHist(name, h) ==
  [x \in (DOMAIN hist) \cup {name} |-> IF x = name THEN h ELSE hist[x]]

\* the dispatches that are past the lookup of the record `name`
PastLookup(name) ==
  {q \in Procs : /\ procs[q].kind = "webhook"
                 /\ procs[q].pc \in {"gat_get", "gat_fetch", "gat_put", "wh_publish",
                                     "wh_putIdem", "wh_catchPut"}
                 /\ procs[q].idemName = name}

\* answers of the publish endpoint: 2xx, an error status, no answer at all
PublishOutcomes == {"ok", "rejected", "throw"}

\* the secrets a request can carry: none, a revealed one, one never minted
ApiKeyInputs == {""} \cup Revealed \cup {"rk_live_unknown"}

\* lines 627-630: the key header, its hash, enforceRate(`rk:webhook:${hash}`, 60, 60).
\* maxReqs bounds the dispatches received.
webhook_start(p, apiKey, dry, body, maxReqs, conc) ==
  LET pr == [NewProc("webhook", RateLocals @@ TokenLocals @@ WebhookLocals) EXCEPT
                !.apiKey = apiKey, !.dry = dry, !.body = body]
      hash == sha256Base64Url(apiKey)
      key == "rk:webhook:" \o hash
  IN  /\ CanStart(p, conc)
      /\ minted.reqs < maxReqs
      /\ minted' = [minted EXCEPT !.reqs = @ + 1]
      /\ procs' = Step(p,
            IF apiKey = ""
            THEN WebhookDone(pr, 401, JsonBody(FALSE, "", "", "missing X-Api-Key"))
            ELSE EnterRate([pr EXCEPT !.hash = hash], key, WebhookLimit, WebhookWindowSec))
      /\ UNCHANGED <<kv, now, issued, rateStat, hist>>

\* lines 658-671: the try block up to getAccessTokenFor's read
AfterIdem(pr) ==
  LET s == resolveAndSign(pr.body.id, pr.body.url, now)
      q == [pr EXCEPT !.signed = TRUE]
  IN  IF ~s.ok THEN Catch(q, s.err)
      ELSE EnterToken([q EXCEPT !.videoUrl = s.url], WebhookTokKey(pr.openId))

\* lines 632-656: the key record, the body, the validation
webhook_getApi(p) ==
  LET pr == procs[p]
      name == ApiKeyName(pr.hash)
  IN  /\ pr.pc = "wh_getApi"
      /\ procs' = Step(p,
           IF ~Live(name)
           THEN WebhookDone([pr EXCEPT !.metaStatus = "absent"], 401,
                            JsonBody(FALSE, "", "", "unauthorised"))
           ELSE LET meta == KvGetVal(name) IN
             IF meta.status # "active" \/ meta.open_id = ""
             THEN WebhookDone([pr EXCEPT !.metaStatus = meta.status], 401,
                              JsonBody(FALSE, "", "",
                                       "api key not activated (connect TikTok first)"))
             ELSE LET q == [pr EXCEPT !.metaStatus = "active", !.openId = meta.open_id] IN
               IF pr.body.id = "" /\ pr.body.url = ""
               THEN WebhookDone(q, 400,
                                JsonBody(FALSE, "", "", "Provide 'id' or 'r2Url'/'url'"))
               ELSE IF pr.body.idempotencyKey # ""
                    THEN [q EXCEPT
                            !.pc = "wh_getIdem",
                            !.idemName = IdemKeyName(meta.open_id, pr.body.idempotencyKey),
                            !.later = HistOf(IdemKeyName(meta.open_id,
                                               pr.body.idempotencyKey)).stored > 0]
                    ELSE AfterIdem(q))
      /\ UNCHANGED <<kv, now, issued, minted, rateStat, hist>>

\* lines 653-656: existed = await KV.get(`idem:${openId}:${idempotencyKey}`);
\* if (existed) return json(JSON.parse(existed))
webhook_getIdem(p) ==
  LET pr == procs[p]
      name == IdemLookupName(pr.openId, pr.body.idempotencyKey)
      h == HistOf(pr.idemName)
  IN  /\ pr.pc = "wh_getIdem"
      /\ IF Live(name)
         THEN /\ procs' = Step(p,
                    WebhookDone([pr EXCEPT !.replay = TRUE], 200, KvGetVal(name)))
              /\ UNCHANGED hist
         ELSE /\ procs' = Step(p, AfterIdem(pr))
              /\ hist' = SetHist(pr.idemName,
                           [h EXCEPT !.race = @ \/ PastLookup(pr.idemName) # {}])
      /\ UNCHANGED <<kv, now, issued, minted, rateStat>>

\* lines 694-727: the publish request and the endpoint's answer; the post it
\* names is a post of the account the bearer token belongs to
webhook_publish(p) ==
  LET pr == procs[p]
      q == [pr EXCEPT !.published = @ + 1]
      h == HistOf(pr.idemName)
  IN  /\ pr.pc = "wh_publish"
      /\ \E outcome \in PublishOutcomes :
           procs' = Step(p,
             IF outcome = "throw" THEN Catch(q, "TypeError: fetch failed")
             ELSE LET result ==
                        IF outcome = "ok"
                        THEN JsonBody(TRUE, IF publishMode(pr.body) = "draft" THEN "draft_accepted"
                                            ELSE "accepted",
                                      "publish_id:" \o pr.request.bearer.acct, "")
                        ELSE JsonBody(FALSE, "failed", "", "spam_risk_too_many_posts")
                      status == IF outcome = "ok" THEN 200 ELSE 400
                  IN  IF pr.body.idempotencyKey # ""
                      THEN [q EXCEPT !.pc = "wh_putIdem", !.result = result,
                                     !.status = status]
                      ELSE WebhookDone([q EXCEPT !.result = result], status, result))
      /\ hist' = IF pr.body.idempotencyKey # ""
                 THEN SetHist(pr.idemName, [h EXCEPT !.pubs = @ + 1])
                 ELSE hist
      /\ UNCHANGED <<kv, now, issued, minted, rateStat>>

\* the history of a result put under the idempotency key
HistStored(pr) ==
  LET h == HistOf(pr.idemName) IN
  SetHist(pr.idemName,
          [h EXCEPT !.stored = @ + 1,
                    !.first = IF Live(pr.idemName) THEN @ ELSE pr.result,
                    !.overwritten = @ \/ Live(pr.idemName)])

\* lines 729-736: put(`idem:...`, result, {expirationTtl: 86400}); json(result, 200 | 400)
webhook_putIdem(p) ==
  LET pr == procs[p] IN
  /\ pr.pc = "wh_putIdem"
  /\ kv' = KvPut(kv, IdemKeyName(pr.openId, pr.body.idempotencyKey), pr.result, 86400)
  /\ procs' = Step(p, WebhookDone(pr, pr.status, pr.result))
  /\ hist' = HistStored(pr)
  /\ UNCHANGED <<now, issued, minted, rateStat>>

\* lines 740-747: the same put in the catch block; json(result, 500)
webhook_catchPut(p) ==
  LET pr == procs[p] IN
  /\ pr.pc = "wh_catchPut"
  /\ kv' = KvPut(kv, IdemKeyName(pr.openId, pr.body.idempotencyKey), pr.result, 86400)
  /\ procs' = Step(p, WebhookDone(pr, 500, pr.result))
  /\ hist' = HistStored(pr)
  /\ UNCHANGED <<now, issued, minted, rateStat>>

-----------------------------------------------------------------------------
(* The clock *)

\* Time passes by d ms while no request is in flight; expired entries go, and
\* so do the returned requests' results and the history of the windows that ended.
Tick(d, maxNow) ==
  /\ AllIdle
  /\ now + d <= maxNow
  /\ now' = now + d
  /\ kv' = KvExpire(kv, now + d)
  /\ procs' = [p \in Procs |-> IdleProc]
  /\ UNCHANGED <<issued, minted>>
  /\ rateStat' = [x \in {y \in DOMAIN rateStat : now + d < rateStat[y].endsAt}
                    |-> rateStat[x]]
  /\ hist' = [x \in {y \in DOMAIN hist : y \in DOMAIN KvExpire(kv, now + d)}
                |-> hist[x]]

\* Time passes by d ms within a day, up to maxOffset ms after the day's start
TickInDay(d, maxOffset, maxNow) ==
  /\ (now % 86400000) + d <= maxOffset
  /\ Tick(d, maxNow)

-----------------------------------------------------------------------------
(* Specifications *)

Init ==
  /\ kv = << >>
  /\ now = 0
  /\ procs = [p \in Procs |-> IdleProc]
  /\ issued = 0
  /\ minted = [keys |-> 0, states |-> 0, reqs |-> 0]
  /\ rateStat = << >>
  /\ hist = << >>

\* Half a window at a time
TickRate == Tick(TestWindowSec * 500, MaxWindows * TestWindowSec * 1000)

\* enforceRate alone, calls overlapping
NextRate ==
  \/ \E p \in Procs, l \in 1..MaxLimit : enforceRate_call(p, l, NProcs)
  \/ \E p \in Procs : enforceRate_get(p)
  \/ \E p \in Procs : enforceRate_put(p)
  \/ TickRate

SpecRate == Init /\ [][NextRate]_vars

\* enforceRate alone, one call at a time
NextRateSeq ==
  \/ \E p \in Procs, l \in 1..MaxLimit : enforceRate_call(p, l, 1)
  \/ \E p \in Procs : enforceRate_get(p)
  \/ \E p \in Procs : enforceRate_put(p)
  \/ TickRate

SpecRateSeq == Init /\ [][NextRateSeq]_vars

\* Half a minute at a time
TickToken == Tick(30000, MaxTokenTicks * 30000)

\* The token lifecycle: authorizations and direct getAccessTokenFor calls,
\* one request at a time
NextToken ==
  \/ \E show \in ShowInputs : login(show, MaxStates)
  \/ \E p \in Procs, st \in StateInputs : callback_getState(p, st, 1)
  \/ \E p \in Procs : callback_fetch(p, OpenIds, ExpiresIns)
  \/ \E p \in Procs : callback_putTok(p)
  \/ \E p \in Procs : callback_getShow(p)
  \/ \E p \in Procs, a \in OpenIds : getAccessTokenFor_call(p, a, 1)
  \/ \E p \in Procs : getAccessTokenFor_get(p)
  \/ \E p \in Procs : getAccessTokenFor_fetch(p, ExpiresIns, BOOLEAN)
  \/ \E p \in Procs : getAccessTokenFor_put(p)
  \/ TickToken

SpecToken == Init /\ [][NextToken]_vars

\* the body of a dispatch: a clip, under an idempotency key
ClipBody == [id |-> "clip1", url |-> "", idempotencyKey |-> "k1", mode |-> "publish"]

\* other bodies: a url that is none; a draft by url, without idempotency key
PublishBodies ==
  {ClipBody,
   [id |-> "", url |-> BadUrl, idempotencyKey |-> "k1", mode |-> "publish"],
   [id |-> "", url |-> GoodUrl, idempotencyKey |-> "", mode |-> "draft"]}

\* A minute, or a day at once
TickDispatch ==
  \/ TickInDay(60000, 60000, MaxDays * 86400000 + 60000)
  \/ Tick(86400000, MaxDays * 86400000 + 60000)

\* The handlers of a request, step by step (the starts are in the Next of
\* each specification); accts: the accounts that authorize
KeySteps(accts) ==
  \/ \E p \in Procs : enforceRate_get(p)
  \/ \E p \in Procs : enforceRate_put(p)
  \/ \E p \in Procs : createKey_putApi(p)
  \/ \E p \in Procs : createKey_putShow(p)
  \/ \E p \in Procs : callback_fetch(p, accts, {150})
  \/ \E p \in Procs : callback_putTok(p)
  \/ \E p \in Procs : callback_getShow(p)
  \/ \E p \in Procs : callback_delShow(p)
  \/ \E p \in Procs : callback_putApi(p)

WebhookSteps ==
  \/ \E p \in Procs : webhook_getApi(p)
  \/ \E p \in Procs : webhook_getIdem(p)
  \/ \E p \in Procs : getAccessTokenFor_get(p)
  \/ \E p \in Procs : getAccessTokenFor_fetch(p, {150}, {TRUE})
  \/ \E p \in Procs : getAccessTokenFor_put(p)
  \/ \E p \in Procs : webhook_publish(p)
  \/ \E p \in Procs : webhook_putIdem(p)
  \/ \E p \in Procs : webhook_catchPut(p)

PurgeSteps ==
  \/ \E p \in Procs : purge_get(p)
  \/ \E p \in Procs : purge_getTok(p)
  \/ \E p \in Procs : purge_delete(p)

\* no request other than a dispatch is in flight
OnlyDispatches ==
  \A q \in Procs : procs[q].kind \in {"none", "webhook"} \/ procs[q].pc = "done"

\* Dispatch: a key is issued and activated, one request at a time; then
\* dispatches of one clip under one idempotency key arrive, overlapping
NextDispatch ==
  \/ /\ minted.reqs = 0
     /\ \/ \E p \in Procs, ip \in Ips : createKey_start(p, ip, MaxKeys, 1)
        \/ \E n \in 1..minted.keys : login(ShowId(n), MaxStates)
        \/ \E p \in Procs, st \in StateInputs \ {"forged"} : callback_getState(p, st, 1)
  \/ KeySteps({"A"})
  \/ /\ OnlyDispatches
     /\ \E p \in Procs, k \in Revealed : webhook_start(p, k, FALSE, ClipBody, MaxReqs, NProcs)
  \/ WebhookSteps
  \/ TickDispatch

SpecDispatch == Init /\ [][NextDispatch]_vars

\* Publishing: keys are issued and activated for either account; then
\* dispatches arrive with any key and body; one request at a time
NextPublish ==
  \/ /\ minted.reqs = 0
     /\ \/ \E p \in Procs, ip \in Ips : createKey_start(p, ip, MaxKeys, 1)
        \/ \E n \in 1..minted.keys : login(ShowId(n), MaxStates)
        \/ \E p \in Procs, st \in StateInputs \ {"forged"} : callback_getState(p, st, 1)
  \/ KeySteps(OpenIds)
  \/ \E p \in Procs, k \in ApiKeyInputs, b \in PublishBodies :
        webhook_start(p, k, FALSE, b, MaxSeqReqs, 1)
  \/ WebhookSteps
  \/ TickInDay(60000, 60000, 60000)

SpecPublish == Init /\ [][NextPublish]_vars

\* Five minutes, or a day at once
TickKey ==
  \/ TickInDay(300000, 300000, MaxDays * 86400000 + 300000)
  \/ Tick(86400000, MaxDays * 86400000 + 300000)

\* The life of a key: issue, authorization, sweep, overlapping
NextKey ==
  \/ \E p \in Procs, ip \in Ips : createKey_start(p, ip, MaxKeys, NProcs)
  \/ \E n \in 1..minted.keys : login(ShowId(n), MaxStates)
  \/ \E p \in Procs, st \in StateInputs : callback_getState(p, st, NProcs)
  \/ KeySteps({"A"})
  \/ \E p \in Procs, d \in PurgeDryRunValues, u \in PurgeUnmatchedValues :
        purge_list(p, d, u, "", NProcs)
  \/ PurgeSteps
  \/ TickKey

SpecKey == Init /\ [][NextKey]_vars

\* Throttling: a key is issued and may be activated; dispatches of one clip
\* present it, more than a window allows, one request at a time
NextThrottle ==
  \/ /\ minted.reqs = 0
     /\ \/ \E p \in Procs, ip \in Ips : createKey_start(p, ip, MaxKeys, 1)
        \/ \E n \in 1..minted.keys : login(ShowId(n), MaxStates)
        \/ \E p \in Procs, st \in StateInputs \ {"forged"} : callback_getState(p, st, 1)
  \/ KeySteps({"A"})
  \/ \E p \in Procs, k \in Revealed :
        webhook_start(p, k, FALSE, ClipBody, WebhookLimit + 1, 1)
  \/ WebhookSteps
  \/ Tick(WebhookWindowSec * 1000, WebhookWindowSec * 1000)

SpecThrottle == Init /\ [][NextThrottle]_vars

\* bodies of a dispatch by what they carry of id and url: neither, both, one
NeitherBody == [id |-> "", url |-> "", idempotencyKey |-> "k1", mode |-> "publish"]

BothBody == [id |-> "clip1", url |-> GoodUrl, idempotencyKey |-> "k1", mode |-> "publish"]

PayloadBodies ==
  {NeitherBody, BothBody, ClipBody,
   [id |-> "", url |-> GoodUrl, idempotencyKey |-> "", mode |-> "draft"]}

\* Payloads: a key is issued and activated; then dispatches arrive on /post
\* and /webhook, dry or not, with any of the bodies; one request at a time
NextPayload ==
  \/ /\ minted.reqs = 0
     /\ \/ \E p \in Procs, ip \in Ips : createKey_start(p, ip, MaxKeys, 1)
        \/ \E n \in 1..minted.keys : login(ShowId(n), MaxStates)
        \/ \E p \in Procs, st \in StateInputs \ {"forged"} : callback_getState(p, st, 1)
  \/ KeySteps({"A"})
  \/ \E p \in Procs, k \in Revealed, dry \in BOOLEAN, b \in PayloadBodies :
        webhook_start(p, k, dry, b, MaxSeqReqs, 1)
  \/ WebhookSteps
  \/ TickInDay(60000, 60000, 60000)

SpecPayload == Init /\ [][NextPayload]_vars

\* Tenants: keys are issued and activated for either account, one request at
\* a time; then dispatches of one clip under one idempotency key present
\* them, all within the life of the tokens
NextTenants ==
  \/ /\ minted.reqs = 0
     /\ \/ \E p \in Procs, ip \in Ips : createKey_start(p, ip, MaxTenants, 1)
        \/ \E n \in 1..minted.keys : login(ShowId(n), MaxTenants)
        \/ \E p \in Procs, st \in StateInputs \ {"forged"} : callback_getState(p, st, 1)
  \/ KeySteps(OpenIds)
  \/ \E p \in Procs, k \in Revealed : webhook_start(p, k, FALSE, ClipBody, MaxTenants, 1)
  \/ \E p \in Procs : webhook_getApi(p)
  \/ \E p \in Procs : webhook_getIdem(p)
  \/ \E p \in Procs : getAccessTokenFor_get(p)
  \/ \E p \in Procs : webhook_publish(p)
  \/ \E p \in Procs : webhook_putIdem(p)
  \/ \E p \in Procs : webhook_catchPut(p)

SpecTenants == Init /\ [][NextTenants]_vars

\* the time of the sweep, and the ages, in hours, of the pending keys it finds
SweepHour == 25

SweepAges == {1, 24, 25}

\* what the sweep can find under a key's hash: nothing, a pending record of
\* one of the ages, an active record of an account
SweepRecords ==
  {Undef}
    \cup {[status |-> "pending", open_id |-> "", created_at |-> (SweepHour - h) * 3600 * 1000] :
            h \in SweepAges}
    \cup {[status |-> "active", open_id |-> a, created_at |-> 0] : a \in OpenIds}

\* the store with the key records recs (by key number) and the token records
\* of the accounts toks
SweepStore(recs, toks) ==
  LET keyName(n) == ApiKeyName(sha256Base64Url(mintApiToken(n)))
      keys == {n \in DOMAIN recs : recs[n] # Undef}
      names == {keyName(n) : n \in keys} \cup {TokKeyName(a) : a \in toks}
  IN  [x \in names |->
         IF \E a \in toks : x = TokKeyName(a)
         THEN LET a == CHOOSE a \in toks : x = TokKeyName(a) IN
              [val |-> [access_token |-> AccessToken(a, 1, "code"),
                        refresh_token |-> RefreshToken(a, 1),
                        expires_in |-> 150, open_id |-> a, obtained_at |-> 0],
               exp |-> 0]
         ELSE [val |-> recs[CHOOSE n \in keys : x = keyName(n)], exp |-> 0]]

\* The store the scheduled sweep finds: key records of any status and age,
\* the token record of A there or not, none of B
InitSweep ==
  /\ now = SweepHour * 3600 * 1000
  /\ \E recs \in [1..MaxSweepKeys -> SweepRecords], toks \in SUBSET {"A"} :
       kv = SweepStore(recs, toks)
  /\ procs = [p \in Procs |-> IdleProc]
  /\ issued = 1
  /\ minted = [keys |-> MaxSweepKeys, states |-> 0, reqs |-> 0]
  /\ rateStat = << >>
  /\ hist = << >>

\* The sweep: scheduled runs of purgeSelective, one at a time, under any
\* configuration
NextSweep ==
  \/ \E p \in Procs, d \in PurgeDryRunValues, u \in PurgeUnmatchedValues,
        h \in PurgeMaxHoursValues : purge_list(p, d, u, h, 1)
  \/ PurgeSteps

SpecSweep == InitSweep /\ [][NextSweep]_vars

\* Activation: a key is issued; authorizations are begun with its ticket and
\* completed for either account, the callbacks overlapping
NextActivate ==
  \/ \E p \in Procs, ip \in Ips : createKey_start(p, ip, MaxKeys, 1)
  \/ \E n \in 1..minted.keys : login(ShowId(n), MaxStates)
  \/ \E p \in Procs, st \in StateInputs \ {"forged"} : callback_getState(p, st, NProcs)
  \/ KeySteps(OpenIds)

SpecActivate == Init /\ [][NextActivate]_vars

\* Reclaiming: a key is issued and, five minutes later or at once, authorized
\* while sweeps run with PURGE_PENDING_MAX_HOURS = "0", requests overlapping
NextReclaim ==
  \/ \E p \in Procs, ip \in Ips : createKey_start(p, ip, MaxKeys, 1)
  \/ \E n \in 1..minted.keys : login(ShowId(n), MaxStates)
  \/ \E p \in Procs, st \in StateInputs \ {"forged"} : callback_getState(p, st, NProcs)
  \/ KeySteps(OpenIds)
  \/ \E p \in Procs : purge_list(p, "false", "", "0", NProcs)
  \/ PurgeSteps
  \/ TickInDay(300000, 300000, 300000)

SpecReclaim == Init /\ [][NextReclaim]_vars

\* Lapsing: a key is issued and its ticket runs out (600 s) or is consumed;
\* logins, callbacks, dispatches and sweeps go on, callbacks overlapping
NextLapse ==
  \/ \E p \in Procs, ip \in Ips : createKey_start(p, ip, MaxKeys, 1)
  \/ \E n \in 1..minted.keys : login(ShowId(n), MaxLapseStates)
  \/ \E p \in Procs, st \in StateInputs \ {"forged"} : callback_getState(p, st, NProcs)
  \/ KeySteps({"A"})
  \/ \E p \in Procs, k \in Revealed :
        webhook_start(p, k, FALSE, ClipBody, MaxSeqReqs, 1)
  \/ WebhookSteps
  \/ \E p \in Procs : purge_list(p, "false", "", "0", 1)
  \/ PurgeSteps
  \/ TickInDay(300000, 600000, 600000)

SpecLapse == Init /\ [][NextLapse]_vars

\* Refreshing: account A authorizes without a ticket, one request at a time;
\* getAccessTokenFor is called for A, the calls overlapping
NextRefresh ==
  \/ login("", MaxStates)
  \/ \E p \in Procs, st \in StateInputs \ {"forged"} : callback_getState(p, st, 1)
  \/ \E p \in Procs : callback_fetch(p, {"A"}, {150})
  \/ \E p \in Procs : callback_putTok(p)
  \/ \E p \in Procs : getAccessTokenFor_call(p, "A", NProcs)
  \/ \E p \in Procs : getAccessTokenFor_get(p)
  \/ \E p \in Procs : getAccessTokenFor_fetch(p, {150}, BOOLEAN)
  \/ \E p \in Procs : getAccessTokenFor_put(p)
  \/ TickToken

SpecRefresh == Init /\ [][NextRefresh]_vars

\* a draft of a clip, under an idempotency key of its own
DraftClipBody == [id |-> "clip1", url |-> "", idempotencyKey |-> "k2", mode |-> "draft"]

\* the same draft, its mode in capitals
CapitalDraftBody == [id |-> "clip1", url |-> "", idempotencyKey |-> "k2", mode |-> "DRAFT"]

\* bodies by outcome: a clip, a draft, nothing to publish, a url that is none
OutcomeBodies ==
  {ClipBody, DraftClipBody, CapitalDraftBody, NeitherBody,
   [id |-> "", url |-> BadUrl, idempotencyKey |-> "k1", mode |-> "publish"]}

\* Outcomes: a key is issued and activated; then dispatches arrive on /post
\* and /webhook, dry or not, with any key and any of the bodies, one request
\* at a time, a minute passing in between or not
NextOutcomes ==
  \/ /\ minted.reqs = 0
     /\ \/ \E p \in Procs, ip \in Ips : createKey_start(p, ip, MaxKeys, 1)
        \/ \E n \in 1..minted.keys : login(ShowId(n), MaxStates)
        \/ \E p \in Procs, st \in StateInputs \ {"forged"} : callback_getState(p, st, 1)
  \/ KeySteps({"A"})
  \/ \E p \in Procs, k \in ApiKeyInputs, dry \in BOOLEAN, b \in OutcomeBodies :
        webhook_start(p, k, dry, b, MaxOutcomeReqs, 1)
  \/ WebhookSteps
  \/ TickInDay(60000, 60000, 60000)

SpecOutcomes == Init /\ [][NextOutcomes]_vars

-----------------------------------------------------------------------------
(* signer.ts (65-233), character by character *)

\* A text is a sequence of units: a unit is one of the characters of IdChars
\* or of a %XX code, or a run of letters, digits, "-" and "_" that no step of
\* the signer takes apart ("mp4", "AWS4-HMAC-SHA256").
IdChars == {"a", "b", "/", ".", " ", "%", "("}

\* identifiers of 1..n characters
Ids(n) == UNION {[1..k -> IdChars] : k \in 1..n}

\* lines 70-75: the environment of makeSigner
R2_BUCKET == <<"b">>
R2_ACCESS_KEY_ID == "AKID"
R2_SECRET_ACCESS_KEY == "r2-secret"
CUSTOM_MEDIA_HOST == "media.example"

\* lines 81-86: normalizeOrigin
normalizeOrigin(hostOrUrl) == "https://" \o hostOrUrl

\* the %XX code of a character: its UTF-8 byte in upper-case hexadecimal
PercentCode(c) ==
  CASE c = " " -> <<"%", "2", "0">>
    [] c = "%" -> <<"%", "2", "5">>
    [] c = "(" -> <<"%", "2", "8">>
    [] c = "/" -> <<"%", "2", "F">>

\* the character of a %XX code
PercentChar(code) ==
  CASE code = <<"2", "0">> -> " "
    [] code = <<"2", "5">> -> "%"
    [] code = <<"2", "8">> -> "("
    [] code = <<"2", "F">> -> "/"

\* every character of `escaped` replaced by its code
RECURSIVE percentEncode(_, _)
percentEncode(s, escaped) ==
  IF Len(s) = 0 THEN <<>>
  ELSE (IF Head(s) \in escaped THEN PercentCode(Head(s)) ELSE <<Head(s)>>)
       \o percentEncode(Tail(s), escaped)

\* encodeURIComponent escapes all but A-Z a-z 0-9 - _ . ! ~ * ' ( ): of the
\* characters of the model, these
UriComponentEscaped == {" ", "%", "/"}

encodeURIComponent(s) == percentEncode(s, UriComponentEscaped)

\* decodeURIComponent: every %XX code replaced by its character
RECURSIVE decodeURIComponent(_)
decodeURIComponent(s) ==
  IF Len(s) = 0 THEN <<>>
  ELSE IF Head(s) = "%"
       THEN <<PercentChar(SubSeq(s, 2, 3))>> \o decodeURIComponent(SubSeq(s, 4, Len(s)))
       ELSE <<Head(s)>> \o decodeURIComponent(Tail(s))

\* String.prototype.split(sep): the pieces between the separators
RECURSIVE split(_, _)
split(s, sep) ==
  IF \A i \in 1..Len(s) : s[i] # sep THEN <<s>>
  ELSE LET i == CHOOSE j \in 1..Len(s) :
                  s[j] = sep /\ \A k \in 1..(j - 1) : s[k] # sep
       IN  <<SubSeq(s, 1, i - 1)>> \o split(SubSeq(s, i + 1, Len(s)), sep)

\* Array.prototype.join(sep)
RECURSIVE join(_, _)
join(parts, sep) ==
  IF Len(parts) = 0 THEN <<>>
  ELSE IF Len(parts) = 1 THEN parts[1]
       ELSE parts[1] \o <<sep>> \o join(Tail(parts), sep)

\* lines 88-91: p.split("/").map(encodeURIComponent).join("/")
encodePathPreservingSlashes(p) ==
  LET segs == split(p, "/") IN
  join([i \in 1..Len(segs) |-> encodeURIComponent(segs[i])], "/")

\* padStart(2, "0")
padStart2(n) == IF n < 10 THEN "0" \o ToString(n) ELSE ToString(n)

\* lines 94-105: the UTC date and time of t ms, for t within January 1970
toAmzDate(t) ==
  LET s == t \div 1000
      day == "197001" \o padStart2((s \div 86400) + 1)
  IN  [date |-> day,
       datetime |-> day \o "T" \o padStart2((s % 86400) \div 3600)
                        \o padStart2((s % 3600) \div 60) \o padStart2(s % 60) \o "Z"]

\* lines 119-138: HMAC-SHA256, SHA-256 and the hexadecimal form of bytes:
\* functions of their input, one-way and free of collisions
hmac(key, data) == [hmac |-> key, data |-> data]

sha256Hex(s) == [sha256Hex |-> s]

hex(u8) == [hex |-> u8]

\* line 171: Object.keys(baseQuery).sort(): by UTF-16 code unit, "X" (0x58)
\* before "x" (0x78)
sortedKeys ==
  <<"X-Amz-Algorithm", "X-Amz-Credential", "X-Amz-Date", "X-Amz-Expires",
    "X-Amz-SignedHeaders", "x-id">>

\* lines 141-204, at time t: the canonical request, the string to sign, the
\* signature, and the URL (href: `${origin}${canonicalUri}?${canonicalQuery}
\* &X-Amz-Signature=`, followed by the signature)
presignGetAt(key, expires, t) ==
  LET amz == toAmzDate(t)
      credentialScope == <<amz.date, "/", "auto", "/", "s3", "/", "aws4_request">>
      credential == <<R2_ACCESS_KEY_ID, "/">> \o credentialScope
      origin == normalizeOrigin(CUSTOM_MEDIA_HOST)
      host == CUSTOM_MEDIA_HOST
      canonicalUri == <<"/">> \o encodePathPreservingSlashes(key)
      baseQuery ==
        [k \in {sortedKeys[i] : i \in 1..Len(sortedKeys)} |->
           CASE k = "X-Amz-Algorithm" -> <<"AWS4-HMAC-SHA256">>
             [] k = "X-Amz-Credential" -> credential
             [] k = "X-Amz-Date" -> <<amz.datetime>>
             [] k = "X-Amz-Expires" -> <<ToString(expires)>>
             [] k = "X-Amz-SignedHeaders" -> <<"host">>
             [] k = "x-id" -> <<"GetObject">>]
      canonicalQuery ==
        join([i \in 1..Len(sortedKeys) |->
                encodeURIComponent(<<sortedKeys[i]>>) \o <<"=">>
                  \o encodeURIComponent(baseQuery[sortedKeys[i]])], "&")
      canonicalRequest ==
        [method |-> "GET", canonicalUri |-> canonicalUri,
         canonicalQuery |-> canonicalQuery, canonicalHeaders |-> <<"host:", host, "\n">>,
         signedHeaders |-> "host", payloadHash |-> "UNSIGNED-PAYLOAD"]
      stringToSign ==
        [algorithm |-> "AWS4-HMAC-SHA256", datetime |-> amz.datetime,
         credentialScope |-> credentialScope, hash |-> sha256Hex(canonicalRequest)]
      kDate == hmac(<<"AWS4", R2_SECRET_ACCESS_KEY>>, amz.date)
      kRegion == hmac(kDate, "auto")
      kService == hmac(kRegion, "s3")
      kSigning == hmac(kService, "aws4_request")
      signature == hex(hmac(kSigning, stringToSign))
  IN  [canonicalRequest |-> canonicalRequest, stringToSign |-> stringToSign,
       signature |-> signature,
       href |-> <<origin>> \o canonicalUri \o <<"?">> \o canonicalQuery
                  \o <<"&", "X-Amz-Signature", "=">>]

\* the URL parser's path: "." segments dropped, ".." segments dropping the
\* segment before them; after a last "." or ".." segment the path ends with "/"
RECURSIVE removeDotSegments(_, _)
removeDotSegments(segs, out) ==
  IF Len(segs) = 0 THEN out
  ELSE LET seg == Head(segs)
           last == Len(segs) = 1
           popped == IF Len(out) = 0 THEN out ELSE SubSeq(out, 1, Len(out) - 1)
       IN  IF seg = <<".", ".">>
           THEN removeDotSegments(Tail(segs), IF last THEN Append(popped, <<>>) ELSE popped)
           ELSE IF seg = <<".">>
                THEN removeDotSegments(Tail(segs), IF last THEN Append(out, <<>>) ELSE out)
                ELSE removeDotSegments(Tail(segs), Append(out, seg))

\* line 222: new URL(rawUrl).pathname, for an href that starts with its origin
pathname(href) ==
  LET rest == Tail(href)
      raw == IF \E i \in 1..Len(rest) : rest[i] = "?"
             THEN Head(split(rest, "?")) ELSE rest
  IN  IF Len(raw) = 0 THEN <<"/">>
      ELSE <<"/">> \o join(removeDotSegments(split(Tail(raw), "/"), <<>>), "/")

\* line 223: replace(/^\/+/, "")
RECURSIVE stripLeadingSlashes(_)
stripLeadingSlashes(s) ==
  IF Len(s) > 0 /\ Head(s) = "/" THEN stripLeadingSlashes(Tail(s)) ELSE s

\* String.prototype.startsWith
startsWith(s, prefix) ==
  Len(s) >= Len(prefix) /\ SubSeq(s, 1, Len(prefix)) = prefix

\* lines 221-230, without decodeURIComponent
extractKeyFromHref_noDecode(href) ==
  LET path == stripLeadingSlashes(pathname(href))
      bucketPrefix == R2_BUCKET \o <<"/">>
  IN  IF startsWith(path, bucketPrefix)
      THEN SubSeq(path, Len(bucketPrefix) + 1, Len(path))
      ELSE path

\* lines 221-230, on the text of a URL
extractKeyFromHref(href) ==
  LET path == decodeURIComponent(stripLeadingSlashes(pathname(href)))
      bucketPrefix == R2_BUCKET \o <<"/">>
  IN  IF startsWith(path, bucketPrefix)
      THEN SubSeq(path, Len(bucketPrefix) + 1, Len(path))
      ELSE path

\* line 211: key = `${input.id}.mp4`
keyOfId(id) == id \o <<".", "mp4">>

SignLocals == [id |-> <<>>, key |-> <<>>, presigned |-> Undef, extracted |-> <<>>]

\* lines 207-218: resolveAndSign({id}), for a non-empty id; one identifier is
\* signed at each time of the clock
resolveAndSign_id(p, id) ==
  /\ CanStart(p, 1)
  /\ \A q \in Procs : procs[q].pc = "idle"
  /\ procs' = Step(p, [NewProc("sign", SignLocals) EXCEPT
                         !.pc = "sg_signed", !.id = id, !.key = keyOfId(id),
                         !.presigned = presignGetAt(keyOfId(id), 604800, now)])
  /\ UNCHANGED <<kv, now, issued, minted, rateStat, hist>>

\* lines 221-230: extractKeyFromUrl applied to the URL just signed
extractKeyFromUrl_signed(p) ==
  LET pr == procs[p] IN
  /\ pr.pc = "sg_signed"
  /\ procs' = Step(p, [pr EXCEPT !.pc = "done",
                                 !.extracted = extractKeyFromHref(pr.presigned.href)])
  /\ UNCHANGED <<kv, now, issued, minted, rateStat, hist>>

\* The signer alone: an identifier is signed and the key is extracted from
\* the URL, at either of two times of the clock
NextSign ==
  \/ \E p \in Procs, id \in Ids(MaxIdLen) : resolveAndSign_id(p, id)
  \/ \E p \in Procs : extractKeyFromUrl_signed(p)
  \/ Tick(3661000, 3661000)

SpecSign == Init /\ [][NextSign]_vars

\* The program: every handler, requests overlapping
Next ==
  \/ NextRate
  \/ NextToken
  \/ NextDispatch
  \/ NextPublish
  \/ NextKey
  \/ NextThrottle
  \/ NextPayload
  \/ NextTenants
  \/ NextSweep
  \/ NextActivate
  \/ NextOutcomes
  \/ NextSign
  \/ NextReclaim
  \/ NextLapse
  \/ NextRefresh

Spec == Init /\ [][Next]_vars

-----------------------------------------------------------------------------
(* Claims *)

Min(a, b) == IF a < b THEN a ELSE b

Counter(wk) == IF Live(wk) THEN KvGetVal(wk) ELSE 0

\* C9 (SpecRateSeq): of the calls made one after the other on one bucket within
\* one window, the k-th is allowed exactly when k <= limit, with remaining =
\* limit - k, and every later one is rejected with remaining = 0; between
\* calls the stored counter is min(calls made, limit), so a rejected call
\* leaves it as it was.
C9_SequentialCallsAllowExactlyLimit ==
  /\ \A p \in Procs :
        RateCall(p) =>
          LET pr == procs[p] IN
            /\ pr.rl.allowed = (pr.ord <= pr.limit)
            /\ pr.rl.remaining = (IF pr.ord <= pr.limit THEN pr.limit - pr.ord ELSE 0)
  /\ \A wk \in DOMAIN rateStat :
        InFlightOn(wk) = {} =>
          /\ Counter(wk) = Min(rateStat[wk].finished, rateStat[wk].limit)
          /\ rateStat[wk].allowed = Min(rateStat[wk].finished, rateStat[wk].limit)

\* the (limit+1)-th call of a window has returned, rejected
C9_Witness ==
  \E p \in Procs :
    /\ RateCall(p)
    /\ procs[p].ord = procs[p].limit + 1
    /\ ~procs[p].rl.allowed /\ procs[p].rl.remaining = 0
    /\ Counter(procs[p].windowKey) = procs[p].limit

\* C10 (SpecRate): more than `limit` calls of one window are allowed only when
\* calls on that bucket overlapped, and with overlapping calls it happens
\* (the witness): the read of the counter and the write of counter + 1 are
\* two steps.
C10_ExcessOnlyWhenCallsOverlap ==
  \A wk \in DOMAIN rateStat :
    rateStat[wk].allowed > rateStat[wk].limit => rateStat[wk].overlap

C10_Witness ==
  \E wk \in DOMAIN rateStat :
    /\ rateStat[wk].allowed > rateStat[wk].limit
    /\ rateStat[wk].finished = rateStat[wk].started

\* a dispatch in slot p, and one that has answered
Dispatch(p) == procs[p].kind = "webhook"

DispatchDone(p) == Dispatch(p) /\ procs[p].pc = "done"

\* C1, as stated (SpecDispatch): once a dispatch for (A, K) has stored its
\* result, a later dispatch for (A, K) answers with the first result stored,
\* and calls neither the publish endpoint, nor the token endpoint, nor the
\* signer.
C1_LaterDispatchReturnsFirstResult ==
  \A p \in Procs :
    DispatchDone(p) /\ procs[p].later =>
      /\ procs[p].replay
      /\ procs[p].resp = HistOf(procs[p].idemName).first
      /\ procs[p].published = 0 /\ procs[p].nreq = 0 /\ ~procs[p].signed

\* C1, amended (SpecDispatch): once a dispatch for (A, K) has stored its
\* result, a later dispatch for (A, K) answers 200 with the result stored
\* under (A, K) at that time, which is the first result unless a dispatch that
\* overlapped the first one has put its own over it, and calls neither the
\* publish endpoint, nor the token endpoint (the token record is not even
\* read), nor the signer.
C1_LaterDispatchReturnsStoredResult ==
  \A p \in Procs :
    DispatchDone(p) /\ procs[p].later =>
      LET pr == procs[p]
          h == HistOf(pr.idemName)
      IN  /\ pr.replay /\ pr.status = 200
          /\ Live(pr.idemName) /\ pr.resp = KvGetVal(pr.idemName)
          /\ ~h.overwritten => pr.resp = h.first
          /\ pr.published = 0 /\ pr.nreq = 0 /\ pr.kvKey = "" /\ ~pr.signed

\* a later dispatch replays the failure the only dispatch before it stored
C1_Witness ==
  \E p \in Procs :
    /\ DispatchDone(p) /\ procs[p].later /\ procs[p].replay
    /\ HistOf(procs[p].idemName).stored = 1
    /\ procs[p].resp = HistOf(procs[p].idemName).first
    /\ ~procs[p].resp.ok

\* C2, as stated (SpecDispatch): the dispatches for one (A, K) send at most
\* one publish request between them during the lifetime of the idempotency
\* record, however they interleave.
C2_AtMostOnePublish ==
  \A name \in DOMAIN hist : hist[name].pubs <= 1

\* C2, amended (SpecDispatch): the dispatches for one (A, K) send more than
\* one publish request during the lifetime of the idempotency record only
\* when two of them overlapped, one reading "no record" while the other was
\* between that same reading and its return.
C2_AtMostOnePublishUnlessOverlap ==
  \A name \in DOMAIN hist : hist[name].pubs > 1 => hist[name].race

\* three dispatches one after the other: one publish request, two results
\* replayed
C2_Witness ==
  /\ minted.reqs = 3
  /\ \E name \in DOMAIN hist :
       /\ hist[name].pubs = 1 /\ ~hist[name].race /\ hist[name].stored = 1
       /\ \E p \in Procs :
            DispatchDone(p) /\ procs[p].idemName = name /\ procs[p].replay

KeyStatus(store, hash) ==
  IF ApiKeyName(hash) \in DOMAIN store THEN store[ApiKeyName(hash)].val.status
  ELSE "absent"

\* C3, as stated (SpecThrottle): the record of a key createKey has issued is
\* pending; a dispatch that presents a key whose record is pending is answered
\* 401; when a callback has activated a key for the account X the
\* authorization server named, the key's record is active and bound to X.
C3_PendingKeyAnswered401 ==
  /\ \A p \in Procs :
       procs[p].kind = "createKey" /\ procs[p].pc = "done" /\ procs[p].status = 200 =>
         KeyStatus(kv, sha256Base64Url(procs[p].raw)) = "pending"
  /\ \A p \in Procs :
       DispatchDone(p) /\ KeyStatus(kv, sha256Base64Url(procs[p].apiKey)) = "pending" =>
         procs[p].status = 401
  /\ \A p \in Procs :
       /\ procs[p].kind = "callback" /\ procs[p].pc = "done"
       /\ procs[p].status = 200 /\ procs[p].apiKeyOnce # ""
       => /\ KeyStatus(kv, sha256Base64Url(procs[p].apiKeyOnce)) = "active"
          /\ KvGetVal(ApiKeyName(sha256Base64Url(procs[p].apiKeyOnce))).open_id
               = procs[p].data.open_id

\* the request in flight that takes the step is of this kind
Mover(kind) ==
  \E p \in Procs :
    /\ procs[p].pc \notin {"idle", "done"}
    /\ procs[p].kind = kind
    /\ procs'[p] # procs[p]

C5_PublishPrecededByChecks ==
  \A p \in Procs :
    Dispatch(p) /\ (procs[p].pc = "wh_publish" \/ procs[p].published > 0) =>
      LET pr == procs[p] IN
        /\ pr.metaStatus = "active" /\ pr.openId \in OpenIds
        /\ KeyStatus(kv, pr.hash) = "active"
        /\ KvGetVal(ApiKeyName(pr.hash)).open_id = pr.openId
        /\ pr.rl.allowed
        /\ pr.signed /\ pr.videoUrl # Undef
        /\ pr.err = ""
        /\ pr.hadTok /\ pr.kvKey = TokKeyName(pr.openId)
        /\ pr.access.acct = pr.openId
        /\ pr.access = KvGetVal(TokKeyName(pr.openId)).access_token
        /\ pr.request.bearer = pr.access
        /\ pr.request.source_info.video_url = pr.videoUrl
        /\ pr.published <= 1

\* a key bound to B has published with B's token while A has a token record
\* too
C5_Witness ==
  \E p \in Procs :
    /\ DispatchDone(p) /\ procs[p].published = 1
    /\ procs[p].openId = "B" /\ procs[p].access.acct = "B"
    /\ Live(TokKeyName("A"))

\* the throw of a rejected refresh
RefreshFailed(err) == \E body \in TokenErrors : err = "Error: Refresh failed: " \o body

\* C8 (SpecPublish): a dispatch whose token refresh is rejected has sent one
\* request to the token endpoint and written no token record, so the stored
\* record is the one it read; it sends no publish request and answers 500
\* with the error.
C8_RefreshRejected ==
  \A p \in Procs :
    Dispatch(p) /\ RefreshFailed(procs[p].err) =>
      LET pr == procs[p] IN
        /\ pr.nreq = 1 /\ pr.nput = 0
        /\ Live(pr.kvKey) /\ KvGetVal(pr.kvKey) = pr.tok
        /\ pr.published = 0
        /\ pr.pc = "done" => /\ pr.status = 500
                             /\ pr.resp = JsonBody(FALSE, "", "", pr.err)

\* a dispatch under an idempotency key has failed on a rejected refresh
C8_Witness ==
  \E p \in Procs :
    /\ DispatchDone(p) /\ RefreshFailed(procs[p].err)
    /\ procs[p].status = 500 /\ procs[p].published = 0
    /\ procs[p].body.idempotencyKey # ""

\* a direct getAccessTokenFor call that has returned or thrown
TokenCall(p) == procs[p].kind = "token" /\ procs[p].pc = "done"

\* C6 (SpecToken): a getAccessTokenFor call that reads a record obtained at t0
\* with expires_in = E at a time before t0 + (E - 120) s returns the stored
\* access_token, sends nothing to the token endpoint and writes nothing; a
\* call at or after that instant sends exactly one refresh request.  (After a
\* successful refresh the record read is the new one, so the calls inside the
\* new validity window send none.)
C6_TokenFreshness ==
  \A p \in Procs :
    TokenCall(p) /\ procs[p].hadTok =>
      LET pr == procs[p]
          boundary == pr.tok.obtained_at + (pr.tok.expires_in - 120) * 1000
      IN  /\ pr.tcheck < boundary =>
                /\ pr.access = pr.tok.access_token /\ pr.err = ""
                /\ pr.nreq = 0 /\ pr.nput = 0
                /\ Live(pr.kvKey) /\ KvGetVal(pr.kvKey) = pr.tok
          /\ pr.tcheck >= boundary => pr.nreq = 1

\* a call inside the validity window of a refreshed record: it returns the
\* refreshed token and sends no request
C6_Witness ==
  \E p \in Procs :
    /\ TokenCall(p) /\ procs[p].hadTok
    /\ procs[p].nreq = 0 /\ procs[p].access = procs[p].tok.access_token
    /\ procs[p].access.grant = "refresh"
    /\ procs[p].tcheck > procs[p].tok.obtained_at

\* C7 (SpecToken): a call whose refresh exchange succeeded has written the
\* account's record once: the access_token and expires_in of the response, the
\* refresh_token of the response or, when it has none, the one stored before,
\* obtained_at = the time of the exchange; and it returns the response's
\* access_token.
C7_RefreshReplacesRecord ==
  \A p \in Procs :
    TokenCall(p) /\ procs[p].nreq = 1 /\ procs[p].err = "" =>
      LET pr == procs[p]
          rec == KvGetVal(pr.kvKey)
      IN  /\ pr.nput = 1 /\ Live(pr.kvKey)
          /\ rec.access_token = pr.data.access_token
          /\ rec.expires_in = pr.data.expires_in
          /\ rec.obtained_at = pr.tcheck
          /\ rec.refresh_token = (IF pr.data.refresh_token = Undef
                                  THEN pr.tok.refresh_token ELSE pr.data.refresh_token)
          /\ rec.refresh_token # Undef
          /\ pr.access = pr.data.access_token
          /\ pr.access # pr.tok.access_token

\* a refresh whose response carried no refresh_token
C7_Witness ==
  \E p \in Procs :
    /\ TokenCall(p) /\ procs[p].nreq = 1 /\ procs[p].err = ""
    /\ procs[p].data.refresh_token = Undef
    /\ KvGetVal(procs[p].kvKey).refresh_token = procs[p].tok.refresh_token

\* the dispatch in slot p presents no key, or a key whose record is not that
\* of an activated key
Unresolved(p) ==
  \/ procs[p].apiKey = ""
  \/ KeyStatus(kv, sha256Base64Url(procs[p].apiKey)) # "active"

\* C11, as stated (SpecPublish): a dispatch whose key is missing, unknown or
\* pending is answered 401, and the counter of the rate-limit window it came
\* in is what it was when the dispatch arrived.
C11_UnresolvedKeyLeavesCounters ==
  \A p \in Procs :
    DispatchDone(p) /\ Unresolved(p) =>
      /\ procs[p].status = 401
      /\ Counter(WindowKey("rk:webhook:" \o sha256Base64Url(procs[p].apiKey),
                           now \div 1000, WebhookWindowSec)) = procs[p].count

\* C12, as stated (SpecPayload): a dispatch whose key resolved and whose body
\* carries neither or both of id and url is answered 400, having neither
\* looked up nor stored an idempotency record, nor called the signer, the
\* token retrieval or the publish endpoint.
C12_NotExactlyOneAnswered400 ==
  \A p \in Procs :
    /\ DispatchDone(p) /\ procs[p].metaStatus = "active"
    /\ (procs[p].body.id = "") = (procs[p].body.url = "")
    =>
      /\ procs[p].status = 400
      /\ procs[p].idemName = "" /\ ~procs[p].signed
      /\ procs[p].kvKey = "" /\ procs[p].published = 0

\* C13 (SpecPayload): a dry-run dispatch sends no publish request at any
\* point; when its key resolved, the rate limiter allowed it, its body was
\* accepted, the signer gave a URL and the token was retrieved, it answers
\* 200 with ok, dryRun and the post_info and source_info of the publish
\* request body the same dispatch would have sent.
C13_DryRunSendsNothing ==
  \A p \in Procs :
    Dispatch(p) /\ procs[p].dry =>
      LET pr == procs[p] IN
        /\ pr.published = 0 /\ pr.pc # "wh_publish"
        /\ /\ pr.pc = "done" /\ pr.metaStatus = "active" /\ pr.rl.allowed
           /\ pr.videoUrl # Undef /\ pr.access # Undef
           => /\ pr.status = 200
              /\ pr.resp = [ok |-> TRUE, dryRun |-> TRUE, request |-> PublishBody(pr)]

\* a dry-run dispatch of a draft has answered with the request of a draft
C13_Witness ==
  \E p \in Procs :
    /\ DispatchDone(p) /\ procs[p].dry /\ procs[p].status = 200
    /\ procs[p].body.mode = "draft"
    /\ procs[p].resp = [ok |-> TRUE, dryRun |-> TRUE, request |-> PublishBody(procs[p])]
    /\ procs[p].resp.request.post_info.is_draft

\* C14 (SpecPublish): when a dispatch that is not a dry run, carries an
\* idempotency key and found no record under it has answered, the record
\* idem:<account>:<key> holds exactly the result it answered with, and
\* expires 24 hours later; so it is after an accepted publish (200), a
\* rejected one (400) and a throw of the signer, the token retrieval or the
\* transport (500).
C14_ResultStoredAsReturned ==
  \A p \in Procs :
    /\ DispatchDone(p) /\ ~procs[p].dry /\ procs[p].body.idempotencyKey # ""
    /\ procs[p].signed
    =>
      LET pr == procs[p]
          name == "idem:" \o pr.openId \o ":" \o pr.body.idempotencyKey
      IN  /\ Live(name)
          /\ kv[name] = [val |-> pr.resp, exp |-> now + 24 * 3600 * 1000]
          /\ pr.resp = pr.result
          /\ pr.status = (IF pr.result.ok THEN 200
                          ELSE IF pr.published = 1 /\ pr.result.status = "failed" THEN 400
                          ELSE 500)

\* the signer threw on the url, and the failure is stored and answered
C14_Witness ==
  \E p \in Procs :
    /\ DispatchDone(p) /\ procs[p].body.url = BadUrl /\ procs[p].signed
    /\ procs[p].status = 500 /\ procs[p].published = 0
    /\ Live(procs[p].idemName)
    /\ KvGetVal(procs[p].idemName) = procs[p].resp
    /\ procs[p].resp.error = "TypeError: Invalid URL"

\* idempotency keys a caller can supply, with and without the separator
IdemKeyInputs == {"k1", "k2", "A:k1", "B:k1"}

\* C15 (SpecTenants): the record a dispatch looks up for (account, key) is
\* the one a dispatch stores for (account', key') exactly when the accounts
\* and the keys are the same; a dispatch that answers with a stored result
\* answers with one a dispatch for its own account stored: had that publish
\* been accepted, the post it names is a post of the same account.
C15_RecordsScopedPerAccount ==
  /\ \A a1 \in OpenIds, a2 \in OpenIds, k1 \in IdemKeyInputs, k2 \in IdemKeyInputs :
       (IdemLookupName(a1, k1) = IdemKeyName(a2, k2)) <=> (a1 = a2 /\ k1 = k2)
  /\ \A p \in Procs :
       DispatchDone(p) /\ procs[p].replay =>
         /\ procs[p].later
         /\ procs[p].resp.ok => procs[p].resp.tiktok = "publish_id:" \o procs[p].openId

\* a dispatch for B under the key K has published, having found no record,
\* while the record a dispatch for A stored under K is there
C15_Witness ==
  \E p \in Procs :
    /\ DispatchDone(p) /\ procs[p].openId = "B" /\ procs[p].body.idempotencyKey = "k1"
    /\ ~procs[p].replay /\ procs[p].published = 1
    /\ procs[p].resp.ok /\ procs[p].resp.tiktok = "publish_id:B"
    /\ Live(IdemKeyName("A", "k1")) /\ KvGetVal(IdemKeyName("A", "k1")).ok
    /\ Live(IdemKeyName("B", "k1"))

\* the names of the key records there can be
KeyNames == {ApiKeyName(sha256Base64Url(mintApiToken(n))) : n \in 1..minted.keys}

\* the sweep in slot p, not a dry run, is in flight, and ends with this step
Sweeping(p) ==
  procs[p].kind = "purge" /\ ~procs[p].dryRun /\ procs[p].pc \notin {"idle", "done"}

SweepEnds(p) == Sweeping(p) /\ procs'[p].pc = "done"

\* the key record rec is pending and older, at the time the sweep in slot p
\* began, than the sweep's maximum pending age
StalePending(p, rec) ==
  /\ rec.status = "pending"
  /\ procs[p].pnow - rec.created_at > procs[p].maxPendingHours * 3600 * 1000

\* the key record rec is active for an account that has no token record in store
Orphaned(store, rec) ==
  /\ rec.status = "active" /\ rec.open_id # ""
  /\ TokKeyName(rec.open_id) \notin DOMAIN store

\* C16 (SpecSweep): a sweep that is not a dry run deletes a pending key record
\* only if now - created_at > M, for its own now and maximum pending age M,
\* and when it ends no pending key record with now - created_at > M is left.
C16_PendingSweptByAge ==
  [][\A p \in Procs :
       Sweeping(p) =>
         /\ \A k \in (DOMAIN kv) \ (DOMAIN kv') :
              kv[k].val.status = "pending" => StalePending(p, kv[k].val)
         /\ SweepEnds(p) =>
              \A k \in KeyNames \cap (DOMAIN kv') : ~StalePending(p, kv'[k].val)]_vars

\* a sweep with M = 24 h has deleted the pending key of 25 hours ago and left
\* the one of an hour ago
C16_Witness ==
  \E p \in Procs :
    LET k1 == ApiKeyName(sha256Base64Url(mintApiToken(1)))
        k2 == ApiKeyName(sha256Base64Url(mintApiToken(2)))
    IN  /\ procs[p].kind = "purge" /\ procs[p].pc = "done" /\ ~procs[p].dryRun
        /\ procs[p].maxPendingHours = 24 /\ ~procs[p].rmUnmatched
        /\ procs[p].deleted = {k1} /\ ~Live(k1)
        /\ Live(k2) /\ KvGetVal(k2).status = "pending"
        /\ now - KvGetVal(k2).created_at = 3600 * 1000

\* C17, as stated (SpecSweep): when a sweep that is not a dry run ends, no
\* active key record is left whose account has no token record.
C17_NoOrphanLeft ==
  [][\A p \in Procs :
       SweepEnds(p) =>
         \A k \in KeyNames \cap (DOMAIN kv') : ~Orphaned(kv', kv'[k].val)]_vars

\* C17, amended (SpecSweep): a sweep that is not a dry run deletes an active
\* key record only if PURGE_REMOVE_UNMATCHED is not "false" and the record's
\* account has no token record; when PURGE_REMOVE_UNMATCHED is not "false"
\* and the sweep ends, no active key record is left whose account has no
\* token record.
C17_OrphansSweptUnlessKept ==
  [][\A p \in Procs :
       Sweeping(p) =>
         /\ \A k \in (DOMAIN kv) \ (DOMAIN kv') :
              kv[k].val.status = "active" =>
                procs[p].rmUnmatched /\ Orphaned(kv, kv[k].val)
         /\ SweepEnds(p) /\ procs[p].rmUnmatched =>
              \A k \in KeyNames \cap (DOMAIN kv') : ~Orphaned(kv', kv'[k].val)]_vars

\* a sweep has deleted the key of B, who has no token record, and left the
\* key of A, who has one
C17_Witness ==
  \E p \in Procs :
    LET k1 == ApiKeyName(sha256Base64Url(mintApiToken(1)))
        k2 == ApiKeyName(sha256Base64Url(mintApiToken(2)))
    IN  /\ procs[p].kind = "purge" /\ procs[p].pc = "done" /\ ~procs[p].dryRun
        /\ procs[p].rmUnmatched /\ procs[p].reason = "active_unmatched"
        /\ procs[p].deleted = {k2} /\ ~Live(k2)
        /\ Live(k1) /\ KvGetVal(k1).status = "active" /\ KvGetVal(k1).open_id = "A"
        /\ Live(TokKeyName("A")) /\ ~Live(TokKeyName("B"))

\* C18 (SpecSweep): while a dry-run sweep is in flight the store does not
\* change, whatever the store it began on: it deletes and writes nothing.
C18_DryRunLeavesStore ==
  [][(\E p \in Procs : /\ procs[p].kind = "purge" /\ procs[p].dryRun
                       /\ procs[p].pc \notin {"idle", "done"})
       => kv' = kv]_vars

\* a dry-run sweep has ended with candidates, all of them still in the store
C18_Witness ==
  \E p \in Procs :
    /\ procs[p].kind = "purge" /\ procs[p].pc = "done" /\ procs[p].dryRun
    /\ Cardinality(procs[p].candidates) = 2 /\ procs[p].deleted = {}
    /\ \A k \in procs[p].candidates : Live(k)

\* C19, as stated (SpecSweep): a sweep made while PURGE_DRY_RUN is not set
\* deletes nothing.
C19_UnsetMeansDryRun ==
  \A p \in Procs :
    procs[p].kind = "purge" /\ procs[p].dryVar = "" => procs[p].deleted = {}

\* C20, as stated (SpecKey): a token record does not outlive a sweep that
\* began after the token of the record had expired: by then its own TTL or
\* the sweep has removed it.
C20_ExpiredTokenRemoved ==
  \A p \in Procs :
    procs[p].kind = "purge" /\ procs[p].pc = "done" /\ ~procs[p].dryRun =>
      \A a \in OpenIds :
        Live(TokKeyName(a)) =>
          LET tok == KvGetVal(TokKeyName(a)) IN
          procs[p].pnow <= tok.obtained_at + tok.expires_in * 1000

\* a callback arrives in slot p with this step
CallbackArrives(p) ==
  /\ procs[p].pc \in {"idle", "done"}
  /\ procs'[p].kind = "callback" /\ procs'[p] # procs[p]

\* C21 (SpecKey): a callback that arrives with a state under which the store
\* holds no live record, never issued or issued 300 s ago or more, is
\* answered 400 at once: the token endpoint is not called and the store is
\* left as it was.
C21_UnknownStateRejected ==
  [][\A p \in Procs :
       CallbackArrives(p) /\ ~Live(StateKeyName(procs'[p].state)) =>
         /\ procs'[p].pc = "done" /\ procs'[p].status = 400
         /\ procs'[p].data = Undef
         /\ kv' = kv /\ issued' = issued]_vars

\* a callback with a state login issued, expired since, has been answered
\* 400 while the key it was for is still pending
C21_Witness ==
  \E p \in Procs :
    /\ procs[p].kind = "callback" /\ procs[p].pc = "done" /\ procs[p].status = 400
    /\ procs[p].state = StateId(1) /\ minted.states >= 1
    /\ ~Live(StateKeyName(StateId(1)))
    /\ KeyStatus(kv, sha256Base64Url(mintApiToken(1))) = "pending"

\* the callback in slot p takes this step
CallbackStep(p) ==
  /\ procs[p].kind = "callback" /\ procs[p].pc \notin {"idle", "done"}
  /\ procs'[p] # procs[p]

\* C22 (SpecTenants, callbacks one at a time): a callback that returns the
\* secret of a ticket is the first to do so, the key record being pending
\* until then, and leaves no ticket behind; a callback that finds the ticket
\* gone returns an empty secret and writes nothing.
C22_SecretRevealedOnce ==
  [][\A p \in Procs :
       CallbackStep(p) =>
         /\ procs'[p].pc = "done" /\ procs'[p].apiKeyOnce # "" =>
              /\ KeyStatus(kv, sha256Base64Url(procs'[p].apiKeyOnce)) = "pending"
              /\ ShowKeyName(procs[p].show) \notin DOMAIN kv'
         /\ procs[p].pc = "cb_getShow" /\ ~Live(ShowKeyName(procs[p].show)) =>
              /\ procs'[p].pc = "done" /\ procs'[p].status = 200
              /\ procs'[p].apiKeyOnce = ""
              /\ kv' = kv]_vars

\* a later callback with the ticket of a key already activated has returned
\* no secret
C22_Witness ==
  \E p \in Procs :
    /\ procs[p].kind = "callback" /\ procs[p].pc = "done" /\ procs[p].status = 200
    /\ procs[p].show = ShowId(1) /\ procs[p].apiKeyOnce = ""
    /\ ~Live(ShowKeyName(ShowId(1)))
    /\ KeyStatus(kv, sha256Base64Url(mintApiToken(1))) = "active"

\* C23, as stated (SpecActivate): once the record of a key is active and
\* bound to an account, every step leaves it active and bound to that
\* account, however the callbacks that read its ticket interleave.
C23_ActiveKeyKeepsAccount ==
  [][\A n \in 1..MaxKeys :
       LET k == ApiKeyName(sha256Base64Url(mintApiToken(n))) IN
       Live(k) /\ KvGetVal(k).status = "active" =>
         /\ k \in DOMAIN kv'
         /\ kv'[k].val.status = "active"
         /\ kv'[k].val.open_id = KvGetVal(k).open_id]_vars

\* C24 (SpecActivate): after every step, a key record that is active carries
\* an account id that is not empty; and when the step has written it, the
\* step is the put of a callback that read the key's secret from the ticket,
\* and the account id is the open_id of that callback's token exchange.
C24_ActiveKeyCarriesAccount ==
  [][\A n \in 1..MaxKeys :
       LET raw == mintApiToken(n)
           k == ApiKeyName(sha256Base64Url(raw))
       IN  k \in DOMAIN kv' /\ kv'[k].val.status = "active" =>
             /\ kv'[k].val.open_id # ""
             /\ (~Live(k) \/ kv'[k] # kv[k]) =>
                  \E p \in Procs :
                    /\ CallbackStep(p) /\ procs[p].pc = "cb_putApi"
                    /\ procs[p].showKey = raw
                    /\ procs[p].data # Undef
                    /\ kv'[k].val.open_id = procs[p].data.open_id]_vars

\* a callback whose token exchange was answered for B has activated the key,
\* and the key's record carries B
C24_Witness ==
  \E p \in Procs :
    /\ procs[p].kind = "callback" /\ procs[p].pc = "done"
    /\ procs[p].apiKeyOnce = mintApiToken(1)
    /\ procs[p].data.open_id = "B"
    /\ KeyStatus(kv, sha256Base64Url(mintApiToken(1))) = "active"
    /\ KvGetVal(ApiKeyName(sha256Base64Url(mintApiToken(1)))).open_id = "B"

\* the names the entries of the store can have, by family
ShowKeyNames == {ShowKeyName(ShowId(n)) : n \in 1..minted.keys}

StateNames == {StateKeyName(StateId(n)) : n \in 1..minted.states}

TokNames == {TokKeyName(a) : a \in OpenIds}

NewKeyCounterNames ==
  {WindowKey("rk:newkey:" \o ip, w * 3600, 3600) : ip \in Ips, w \in 0..(now \div 3600000)}

\* C25 (SpecKey): the secret of a key is in the store as the value of its
\* ticket only, an entry that expires within 600 s; the key records are
\* named by the hash, not the secret, and hold a status, an account id and
\* a time; the other entries are states (a ticket id), token records and
\* counters.  Once a callback has returned the secret, no ticket holds it.
C25_SecretOnlyInLiveTicket ==
  \A n \in 1..minted.keys :
    LET raw == mintApiToken(n) IN
      /\ \A k \in DOMAIN kv :
           \/ /\ k \in ShowKeyNames
              /\ kv[k].exp # 0 /\ now < kv[k].exp /\ kv[k].exp <= now + 600 * 1000
              /\ kv[k].val = raw => k = ShowKeyName(ShowId(n))
           \/ /\ k \in KeyNames /\ k # "api:" \o raw
              /\ DOMAIN kv[k].val = {"status", "open_id", "created_at"}
              /\ kv[k].val.status \in {"pending", "active"}
              /\ kv[k].val.open_id \in OpenIds \cup {""}
           \/ /\ k \in StateNames
              /\ DOMAIN kv[k].val = {"show"} /\ kv[k].val.show # raw
           \/ k \in TokNames
           \/ k \in NewKeyCounterNames
      /\ \A p \in Procs :
           procs[p].kind = "callback" /\ procs[p].pc = "done" /\ procs[p].apiKeyOnce = raw =>
             \A k \in ShowKeyNames \cap DOMAIN kv : kv[k].val # raw

\* the ticket of a key has expired unused: the key is pending and its secret
\* is in no entry of the store
C25_Witness ==
  /\ minted.keys >= 1 /\ AllIdle
  /\ now >= 600 * 1000
  /\ KeyStatus(kv, sha256Base64Url(mintApiToken(1))) = "pending"
  /\ ~Live(ShowKeyName(ShowId(1)))

\* C26 (SpecOutcomes): the answer of a dispatch and every stored result are
\* made of the fields the handler builds them from: texts, flags, post_info,
\* and a source_info whose video_url is a presigned URL; none is or holds a
\* token of the account (the tokens are the values of the token record and
\* of the authorization header of the publish request only).
C26_NoCredentialInAnswer ==
  LET Plain(body) ==
        IF "dryRun" \in DOMAIN body
        THEN /\ DOMAIN body = {"ok", "dryRun", "request"}
             /\ DOMAIN body.request = {"post_info", "source_info"}
             /\ DOMAIN body.request.post_info = {"title", "privacy_level", "is_draft"}
             /\ body.request.post_info.title \in STRING
             /\ DOMAIN body.request.source_info = {"source", "video_url"}
             /\ DOMAIN body.request.source_info.video_url =
                  {"origin", "key", "date", "expires"}
             /\ body.request.source_info.video_url.key \in STRING
        ELSE /\ DOMAIN body = {"ok", "status", "tiktok", "error"}
             /\ body.status \in STRING /\ body.tiktok \in STRING /\ body.error \in STRING
  IN  /\ \A p \in Procs :
           DispatchDone(p) =>
             IF procs[p].status = 429
             THEN DOMAIN procs[p].rl = {"allowed", "remaining", "resetAt"}
             ELSE Plain(procs[p].resp)
      /\ \A a \in OpenIds, k \in IdemKeyInputs :
           Live(IdemKeyName(a, k)) => Plain(KvGetVal(IdemKeyName(a, k)))

\* a dispatch has answered with the request it would send, built with the
\* access token it got from a refresh
C26_Witness ==
  \E p \in Procs :
    /\ DispatchDone(p) /\ procs[p].dry /\ procs[p].status = 200
    /\ procs[p].nput = 1
    /\ procs[p].request.bearer = procs[p].newTok.access_token
    /\ "dryRun" \in DOMAIN procs[p].resp

\* C27, as stated (SpecOutcomes): the status of an answered dispatch is 401
\* exactly when its key is missing, unknown or not activated; 429, with a
\* Retry-After, exactly when the rate limit refused it; otherwise 400
\* exactly when its body names no object (no id and no url, or a url that
\* is none), 500 exactly when the handler threw, and 200 exactly when the
\* publish was accepted, or shown by a dry run, or answered from a stored
\* result.
C27_StatusFollowsOutcome ==
  \A p \in Procs :
    DispatchDone(p) =>
      LET pr == procs[p]
          limited == pr.apiKey # "" /\ ~pr.rl.allowed
          malformed == pr.body.id = "" /\ pr.body.url \in {"", BadUrl}
          threw == pr.signed /\ ~pr.replay /\ ~pr.resp.ok /\ pr.resp.status = ""
      IN  /\ pr.status \in {200, 400, 401, 429, 500}
          /\ pr.status = 429 <=> limited
          /\ pr.status = 429 => pr.retryAfter >= 0
          /\ pr.status = 401 <=> ~limited /\ Unresolved(p)
          /\ pr.status = 400 <=> ~limited /\ ~Unresolved(p) /\ malformed
          /\ pr.status = 500 <=> ~limited /\ ~Unresolved(p) /\ ~malformed /\ threw
          /\ pr.status = 200 <=>
               /\ ~limited /\ ~Unresolved(p) /\ ~malformed
               /\ pr.replay \/ pr.resp.ok

\* the dispatch in slot p, with an activated key, by id, not a dry run and not
\* answered from a stored result, has its publish request built
DispatchById(p) ==
  /\ Dispatch(p) /\ ~procs[p].dry /\ ~procs[p].replay
  /\ procs[p].metaStatus = "active" /\ procs[p].body.id # ""
  /\ procs[p].pc = "wh_publish" \/ procs[p].published > 0

\* C28, as stated (SpecOutcomes): the publish request of a dispatch by id
\* has as video_url the signed URL of <id>.mp4 on the configured host; it is
\* flagged is_draft when the mode is "draft" and not flagged with any other
\* mode; on a 2xx reply the dispatch returns ok with status "draft_accepted"
\* for mode "draft", "accepted" for any other.
C28_DraftFlagOnlyForModeDraft ==
  \A p \in Procs :
    DispatchById(p) =>
      LET pr == procs[p]
          draft == pr.body.mode = "draft"
      IN  /\ PublishBody(pr).source_info.video_url.key = pr.body.id \o ".mp4"
          /\ PublishBody(pr).source_info.video_url.origin = "https://media.example"
          /\ PublishBody(pr).post_info.is_draft = draft
          /\ pr.pc = "done" /\ pr.status = 200 =>
               /\ pr.resp.ok
               /\ pr.resp.status = IF draft THEN "draft_accepted" ELSE "accepted"

\* C28 (SpecOutcomes): the same, the mode being compared in lower case: a
\* dispatch with mode "draft" or "DRAFT" is a draft.
C28_DraftFlagByLowerCasedMode ==
  \A p \in Procs :
    DispatchById(p) =>
      LET pr == procs[p]
          draft == pr.body.mode \in {"draft", "DRAFT"}
      IN  /\ PublishBody(pr).source_info.video_url.key = pr.body.id \o ".mp4"
          /\ PublishBody(pr).source_info.video_url.origin = "https://media.example"
          /\ PublishBody(pr).post_info.is_draft = draft
          /\ pr.pc = "done" /\ pr.status = 200 =>
               /\ pr.resp.ok
               /\ pr.resp.status = IF draft THEN "draft_accepted" ELSE "accepted"

\* after issue, login and callback for account A, a draft of clip1 under a
\* fresh idempotency key was accepted
C28_Witness ==
  \E p \in Procs :
    /\ DispatchById(p) /\ procs[p].pc = "done" /\ procs[p].status = 200
    /\ procs[p].body = DraftClipBody /\ procs[p].openId = "A" /\ ~procs[p].later
    /\ procs[p].resp.status = "draft_accepted"
    /\ PublishBody(procs[p]).post_info.is_draft
    /\ PublishBody(procs[p]).source_info.video_url.key = "clip1.mp4"

\* the signer has signed the key of an identifier and extracted the key from
\* the URL
SignedAndExtracted(p) == procs[p].kind = "sign" /\ procs[p].pc = "done"

\* C29, as stated (SpecSign): for every identifier, the key extracted from
\* the URL signed for <id>.mp4 is <id>.mp4.
C29_RoundTripEveryId ==
  \A p \in Procs :
    SignedAndExtracted(p) => procs[p].extracted = procs[p].id \o <<".", "mp4">>

\* C29 (SpecSign): the round trip holds for the identifiers that do not
\* start with "/" or with the bucket name followed by "/", and have no
\* segment "." or "..".
C29_RoundTripRelativeIds ==
  \A p \in Procs :
    SignedAndExtracted(p) =>
      LET id == procs[p].id
          segs == split(id \o <<".", "mp4">>, "/")
      IN  /\ Head(id) # "/"
          /\ ~startsWith(id, R2_BUCKET \o <<"/">>)
          /\ \A i \in 1..Len(segs) : segs[i] \notin {<<".">>, <<".", ".">>}
          => procs[p].extracted = id \o <<".", "mp4">>

\* an identifier with a separator, a space and a percent sign, percent-encoded
\* in the URL, came back as it was
C29_Witness ==
  \E p \in Procs :
    /\ SignedAndExtracted(p)
    /\ procs[p].id = <<" ", "/", "%">>
    /\ procs[p].presigned.canonicalRequest.canonicalUri =
         <<"/", "%", "2", "0", "/", "%", "2", "5", ".", "mp4">>
    /\ procs[p].extracted = <<" ", "/", "%", ".", "mp4">>

\* C30, as stated (SpecSign): the canonical request, the string to sign and
\* the signature of the URL signed for a key are those of Signature Version
\* 4: the canonical URI is "/" and the segments of the key, the canonical
\* query the parameters of the URL by name, each name and value with every
\* character but A-Z a-z 0-9 - _ . ~ percent-encoded; host is the signed
\* header and the payload is UNSIGNED-PAYLOAD; the string to sign names the
\* algorithm, the time, the scope and the hash of the canonical request; the
\* signature is the HMAC of it under the key derived from the secret, the
\* date, the region and the service.
C30_SignatureIsSigV4 ==
  \A p \in Procs :
    procs[p].kind = "sign" /\ procs[p].pc \in {"sg_signed", "done"} =>
      LET key == procs[p].key
          Escaped == {" ", "%", "/", "("}
          amz == toAmzDate(now)
          scope == <<amz.date, "/", "auto", "/", "s3", "/", "aws4_request">>
          segs == split(key, "/")
          uri == <<"/">> \o join([i \in 1..Len(segs) |-> percentEncode(segs[i], Escaped)], "/")
          params ==
            << <<"X-Amz-Algorithm", <<"AWS4-HMAC-SHA256">> >>,
               <<"X-Amz-Credential", <<R2_ACCESS_KEY_ID, "/">> \o scope>>,
               <<"X-Amz-Date", <<amz.datetime>> >>,
               <<"X-Amz-Expires", <<"604800">> >>,
               <<"X-Amz-SignedHeaders", <<"host">> >>,
               <<"x-id", <<"GetObject">> >> >>
          query ==
            join([i \in 1..Len(params) |->
                    percentEncode(<<params[i][1]>>, Escaped) \o <<"=">>
                      \o percentEncode(params[i][2], Escaped)], "&")
          request ==
            [method |-> "GET", canonicalUri |-> uri, canonicalQuery |-> query,
             canonicalHeaders |-> <<"host:", CUSTOM_MEDIA_HOST, "\n">>,
             signedHeaders |-> "host", payloadHash |-> "UNSIGNED-PAYLOAD"]
          toSign ==
            [algorithm |-> "AWS4-HMAC-SHA256", datetime |-> amz.datetime,
             credentialScope |-> scope, hash |-> sha256Hex(request)]
          signingKey ==
            hmac(hmac(hmac(hmac(<<"AWS4", R2_SECRET_ACCESS_KEY>>, amz.date), "auto"), "s3"),
                 "aws4_request")
      IN  /\ procs[p].presigned.canonicalRequest = request
          /\ procs[p].presigned.stringToSign = toSign
          /\ procs[p].presigned.signature = hex(hmac(signingKey, toSign))

\* C31, as stated (SpecReclaim): the record a sweep deletes is not, at the
\* moment of the delete, the record of an active key whose account has a
\* token record.
C31_SweepSparesActivatedKey ==
  [][\A p \in Procs :
       /\ procs[p].kind = "purge" /\ procs[p].pc = "pg_delete"
       /\ procs'[p] # procs[p]
       /\ Live(procs[p].cur)
       => ~ /\ KvGetVal(procs[p].cur).status = "active"
            /\ Live(TokKeyName(KvGetVal(procs[p].cur).open_id))]_vars

\* C32, as stated (SpecRefresh): of the getAccessTokenFor calls for an
\* account that are in flight or have just returned, at most one has sent a
\* refresh request; and when no call is in flight the token record of the
\* account holds the access token the server issued last.
C32_OneRefreshPerBoundary ==
  /\ \A p \in Procs, q \in Procs :
       /\ p # q
       /\ procs[p].kind = "token" /\ procs[q].kind = "token"
       /\ procs[p].kvKey = procs[q].kvKey
       => procs[p].nreq + procs[q].nreq <= 1
  /\ AllIdle /\ Live(TokKeyName("A")) =>
       KvGetVal(TokKeyName("A")).access_token.n = issued

C34_StateOutlivesCallback ==
  [][/\ now' = now =>
          \A n \in 1..minted.states :
            Live(StateKeyName(StateId(n))) =>
              /\ StateKeyName(StateId(n)) \in DOMAIN kv'
              /\ kv'[StateKeyName(StateId(n))] = kv[StateKeyName(StateId(n))]
     /\ \A p \in Procs :
          CallbackArrives(p) /\ Live(StateKeyName(procs'[p].state)) =>
            procs'[p].pc = "cb_fetch"
     /\ \A p \in Procs :
          CallbackStep(p) /\ procs[p].pc = "cb_putTok" =>
            kv'[TokKeyName(procs[p].data.open_id)].val.access_token
              = procs[p].data.access_token]_vars

\* a second callback under the same state has exchanged its own code: the
\* token record holds the first exchange's tokens, the callback the second's
C34_Witness ==
  \E p \in Procs, a \in OpenIds :
    /\ procs[p].kind = "callback" /\ procs[p].pc = "cb_putTok"
    /\ Live(StateKeyName(procs[p].state))
    /\ Live(TokKeyName(a))
    /\ KvGetVal(TokKeyName(a)).access_token.n = 1
    /\ procs[p].data.access_token.n = 2

\* the n-th key is pending in store and its reveal ticket, once written, is
\* gone, and no callback among the requests ps has the secret it read from
\* the ticket in hand
TicketGone(n, store, ps) ==
  LET raw == mintApiToken(n) IN
  /\ KeyStatus(store, sha256Base64Url(raw)) = "pending"
  /\ ShowKeyName(ShowId(n)) \notin DOMAIN store
  /\ \A q \in Procs :
       ~ (ps[q].kind = "createKey" /\ ps[q].pc = "ck_putShow" /\ ps[q].raw = raw)
  /\ \A q \in Procs :
       ~ (ps[q].kind = "callback" /\ ps[q].pc \in {"cb_delShow", "cb_putApi"}
          /\ ps[q].showKey = raw)

C36_StoredCounterWithinLimit ==
  /\ \A l \in 1..MaxLimit, w \in 0..MaxWindows :
       LET wk == "rk:t" \o ToString(l) \o ":" \o ToString(w) IN
       Live(wk) => KvGetVal(wk) >= 1 /\ KvGetVal(wk) <= l
  /\ \A p \in Procs :
       procs[p].kind = "rate" /\ procs[p].pc = "er_put" =>
         procs[p].count < procs[p].limit

\* more calls of a window than its limit have been allowed, and the stored
\* counter is below the number of calls allowed
C36_Witness ==
  \E wk \in DOMAIN rateStat :
    /\ Live(wk)
    /\ rateStat[wk].allowed > rateStat[wk].limit
    /\ KvGetVal(wk) <= rateStat[wk].limit
    /\ KvGetVal(wk) < rateStat[wk].allowed

\* C37 (SpecActivate): a callback whose code exchange the authorization
\* server rejects returns 500 with that step, which leaves the store as it
\* was; it has read no ticket and holds no tokens; and a callback that then
\* reads a live ticket after a granted exchange takes the secret and goes on
\* to activate the key.
C37_RejectedExchangeLeavesStore ==
  [][\A p \in Procs :
       /\ CallbackStep(p) /\ procs[p].pc = "cb_fetch" /\ issued' = issued =>
            /\ procs'[p].pc = "done" /\ procs'[p].status = 500
            /\ procs'[p].detail \in TokenErrors
            /\ procs'[p].showKey = "" /\ procs'[p].apiKeyOnce = ""
            /\ kv' = kv
       /\ CallbackStep(p) /\ procs[p].pc = "cb_getShow"
          /\ Live(ShowKeyName(procs[p].show)) =>
            /\ procs'[p].pc = "cb_delShow"
            /\ procs'[p].showKey = KvGetVal(ShowKeyName(procs[p].show))]_vars

\* a callback has been answered 500; the key is pending, no token record
\* has been written, and the ticket and the state that names it are live
C37_Witness ==
  \E p \in Procs :
    /\ procs[p].kind = "callback" /\ procs[p].pc = "done" /\ procs[p].status = 500
    /\ procs[p].show = ShowId(1)
    /\ KeyStatus(kv, sha256Base64Url(mintApiToken(1))) = "pending"
    /\ Live(ShowKeyName(ShowId(1)))
    /\ Live(StateKeyName(procs[p].state))
    /\ \A a \in OpenIds : ~Live(TokKeyName(a))

====
